---- MODULE Spec2Model ----
(***************************************************************************)
(* The BIP32/49/84 extended-key codec of coins-bip32 (src/bip32/src/enc.rs) *)
(* as a state machine: a caller session makes codec calls one after the    *)
(* other; each call is one action, computed as the code computes it, and   *)
(* the call (its arguments and its result) is appended to `calls`.         *)
(*                                                                         *)
(* Bytes are the integers 0..255 and buffers are sequences of bytes.  A    *)
(* u32 is the pair <<high 16 bits, low 16 bits>>, so that the whole u32    *)
(* range (hardened child indexes included) is representable.  A Base58     *)
(* string is a sequence of one-character strings.                          *)
(***************************************************************************)
EXTENDS Integers, Sequences, FiniteSets, TLC

VARIABLES calls

vars == << calls >>

(***************************************************************************)
(* Bounds of the model.                                                    *)
(***************************************************************************)
\* codec calls in one session
MaxCalls == 2
\* bytes a caller appends after a complete 78-byte serialization
MaxTrailing == 2
\* longest payload handed directly to encode_b58_check
MaxPayloadLen == 3
\* single-byte alterations of a long Base58Check buffer touch its first
\* AlterHead and its last AlterTail bytes (every byte of a short one)
AlterHead == 2
AlterTail == 5

(***************************************************************************)
(* Bytes, sequences, u32.                                                  *)
(***************************************************************************)
Min(a, b) == IF a < b THEN a ELSE b

\* TLC evaluates a definition or an argument when it is first used.
\* Then(first, second) is second, with first evaluated before it: a fold
\* written with it is evaluated from its first step to its last, to a depth
\* logarithmic in its length when it splits its range in parts, and an
\* operation written with it evaluates its operands before its own body.
Then(first, second) == IF first = first THEN second ELSE second

Last(s) == s[Len(s)]

Zeros(n) == [i \in 1..n |-> 0]

\* the first n elements of s, and all of s when it has fewer: what the
\* properties call the first bytes of a buffer of any length
Take(s, n) == SubSeq(s, 1, Min(n, Len(s)))

Drop(s, n) == SubSeq(s, n + 1, Len(s))

\* numeric order of the big-endian integers two byte strings of equal
\* length encode
BytesLess(a, b) ==
    \E i \in 1..Len(a) : a[i] < b[i] /\ \A j \in 1..(i - 1) : a[j] = b[j]

\* how many copies of x the sequence s starts with
LeadingCount(s, x) ==
    IF \A i \in 1..Len(s) : s[i] = x THEN Len(s)
    ELSE (CHOOSE i \in 1..Len(s) : s[i] # x /\ \A j \in 1..(i - 1) : s[j] = x) - 1

to_be_bytes(u) == << u[1] \div 256, u[1] % 256, u[2] \div 256, u[2] % 256 >>

from_be_bytes(b) == << b[1] * 256 + b[2], b[3] * 256 + b[4] >>

(***************************************************************************)
(* Network parameter sets (params! Main / Test).                           *)
(***************************************************************************)
Main ==
    [ PRIV_VERSION       |-> << 1160, 44516 >>,   \* 0x0488_ADE4
      BIP49_PRIV_VERSION |-> << 1181, 30840 >>,   \* 0x049d_7878
      BIP84_PRIV_VERSION |-> << 1202, 17164 >>,   \* 0x04b2_430c
      PUB_VERSION        |-> << 1160, 45598 >>,   \* 0x0488_B21E
      BIP49_PUB_VERSION  |-> << 1181, 31922 >>,   \* 0x049d_7cb2
      BIP84_PUB_VERSION  |-> << 1202, 18246 >> ]  \* 0x04b2_4746

\* the Test parameter set with the Legacy versions of Main
TestWithMainLegacy ==
    [ PRIV_VERSION       |-> << 1160, 44516 >>,
      BIP49_PRIV_VERSION |-> << 1098, 20008 >>,
      BIP84_PRIV_VERSION |-> << 1119, 6332 >>,
      PUB_VERSION        |-> << 1160, 45598 >>,
      BIP49_PUB_VERSION  |-> << 1098, 21090 >>,
      BIP84_PUB_VERSION  |-> << 1119, 7414 >> ]

Test ==
    [ PRIV_VERSION       |-> << 1077, 33684 >>,   \* 0x0435_8394
      BIP49_PRIV_VERSION |-> << 1098, 20008 >>,   \* 0x044a_4e28
      BIP84_PRIV_VERSION |-> << 1119, 6332 >>,    \* 0x045f_18bc
      PUB_VERSION        |-> << 1077, 34767 >>,   \* 0x0435_87CF
      BIP49_PUB_VERSION  |-> << 1098, 21090 >>,   \* 0x044a_5262
      BIP84_PUB_VERSION  |-> << 1119, 7414 >> ]   \* 0x045f_1cf6

Nets == { "Main", "Test" }

Params(N) == IF N = "Main" THEN Main ELSE Test

Hints == { "Legacy", "Compatibility", "SegWit" }

(***************************************************************************)
(* Errors and results.                                                     *)
(***************************************************************************)
NoErr == [ kind |-> "none", data |-> <<>> ]

IoError == [ kind |-> "IoError", data |-> <<>> ]

BadXPrivVersionBytes(b) == [ kind |-> "BadXPrivVersionBytes", data |-> b ]

BadPadding(p) == [ kind |-> "BadPadding", data |-> << p >> ]

BadB58Checksum == [ kind |-> "BadB58Checksum", data |-> <<>> ]

B58Error == [ kind |-> "B58Error", data |-> <<>> ]

BackendError == [ kind |-> "BackendError", data |-> <<>> ]

NoKey == [ kind |-> "none" ]

\* the result of one fixed-width read: the value, what is left of the reader
ROk(v, rest) == [ tag |-> "Ok", val |-> v, rest |-> rest, err |-> NoErr ]

\* the error of a read that left nothing of the reader, or of a conversion,
\* which has no reader
RErr(e) == [ tag |-> "Err", val |-> 0, rest |-> <<>>, err |-> e ]

(***************************************************************************)
(* The curve backend's key parsers (T::Privkey::from_privkey_array,        *)
(* T::Pubkey::from_pubkey_array): a scalar is accepted iff 0 < s < n; a    *)
(* compressed point iff its prefix is 0x02 or 0x03 and its x coordinate is *)
(* the abscissa of a curve point.  OnCurveX lists the abscissas the model  *)
(* draws that are on secp256k1 (1, the generator's, the documentation      *)
(* example's); the others it draws (0, 5, the field prime) are not.        *)
(***************************************************************************)
CurveOrder ==
    << 255, 255, 255, 255, 255, 255, 255, 255, 255, 255, 255, 255, 255, 255, 255, 254,
       186, 174, 220, 230, 175, 72, 160, 59, 191, 210, 94, 140, 208, 54, 65, 65 >>

GeneratorX ==
    << 121, 190, 102, 126, 249, 220, 187, 172, 85, 160, 98, 149, 206, 135, 11, 7,
       2, 155, 252, 219, 45, 206, 40, 217, 89, 242, 129, 91, 22, 248, 23, 152 >>

PointXA ==
    << 101, 87, 253, 218, 29, 93, 67, 215, 150, 17, 247, 132, 120, 4, 113, 240,
       134, 213, 142, 129, 38, 184, 196, 10, 203, 130, 39, 42, 119, 18, 231, 242 >>

FieldPrime ==
    << 255, 255, 255, 255, 255, 255, 255, 255, 255, 255, 255, 255, 255, 255, 255, 255,
       255, 255, 255, 255, 255, 255, 255, 255, 255, 255, 255, 254, 255, 255, 252, 47 >>

OnCurveX == { GeneratorX, PointXA, Zeros(31) \o << 1 >> }

from_privkey_array(buf) ==
    IF buf # Zeros(32) /\ BytesLess(buf, CurveOrder)
    THEN ROk(buf, <<>>)
    ELSE RErr(BackendError)

from_pubkey_array(buf) ==
    IF buf[1] \in { 2, 3 } /\ Tail(buf) \in OnCurveX
    THEN ROk(buf, <<>>)
    ELSE RErr(BackendError)

\* key.privkey_bytes() / key.pubkey_bytes(): the parsed key serialized back
privkey_bytes(key) == key.key

pubkey_bytes(key) == key.key

(***************************************************************************)
(* Writers (std::io::Write).  A Vec<u8> takes every byte; a `&mut [u8]`    *)
(* of capacity cap takes what still fits and reports that count, without   *)
(* an error; a "failing" writer returns an error from the call that would  *)
(* take it past cap.                                                       *)
(***************************************************************************)
VecSink == [ kind |-> "vec", cap |-> 0, data |-> <<>> ]

SliceSink(c) == [ kind |-> "slice", cap |-> c, data |-> <<>> ]

FailingSink(c) == [ kind |-> "failing", cap |-> c, data |-> <<>> ]

WOk(n, sink) == [ tag |-> "Ok", n |-> n, sink |-> sink, err |-> NoErr ]

WErr(sink) == [ tag |-> "Err", n |-> 0, sink |-> sink, err |-> IoError ]

\* writer.write(bytes)
write(sink, bytes) ==
    CASE sink.kind = "vec" ->
            WOk(Len(bytes), [ sink EXCEPT !.data = @ \o bytes ])
      [] sink.kind = "slice" ->
            LET n == Min(Len(bytes), sink.cap - Len(sink.data))
            IN  WOk(n, [ sink EXCEPT !.data = @ \o SubSeq(bytes, 1, n) ])
      [] OTHER ->
            IF Len(sink.data) + Len(bytes) > sink.cap
            THEN WErr(sink)
            ELSE WOk(Len(bytes), [ sink EXCEPT !.data = @ \o bytes ])

\* `written += writer.write(..)?`: the next write of a chain of writes
AndWrite(w, bytes) ==
    IF w.tag # "Ok" THEN w
    ELSE LET x == write(w.sink, bytes)
         IN  IF x.tag # "Ok" THEN x ELSE WOk(w.n + x.n, x.sink)

(***************************************************************************)
(* Readers (std::io::Read on a byte slice): read_exact(n) takes the next n *)
(* bytes or fails when fewer are left.                                     *)
(***************************************************************************)
\* read_exact filling with zeros the bytes the reader does not have
read_exact_zero_filled(reader, n) ==
    IF Len(reader) < n THEN ROk(reader \o Zeros(n - Len(reader)), <<>>)
    ELSE ROk(SubSeq(reader, 1, n), Drop(reader, n))

\* Read::read_exact on a slice of bytes: a slice shorter than the buffer is
\* an error, and the slice is left empty
read_exact(reader, n) ==
    IF Len(reader) < n THEN RErr(IoError)
    ELSE ROk(SubSeq(reader, 1, n), Drop(reader, n))

(***************************************************************************)
(* XKeyEncoder: the writers.                                               *)
(***************************************************************************)
\* write_key_details with the child index written least significant byte
\* first
write_key_details_le(writer, key) ==
    LET w1 == AndWrite(WOk(0, writer), << key.depth >>)
        w2 == AndWrite(w1, key.parent)
        w3 == AndWrite(w2, << key.index[2] % 256, key.index[2] \div 256,
                              key.index[1] % 256, key.index[1] \div 256 >>)
        w4 == AndWrite(w3, key.chain_code)
    IN  w4

write_key_details(writer, key) ==
    LET w1 == AndWrite(WOk(0, writer), << key.depth >>)
        w2 == AndWrite(w1, key.parent)
        w3 == AndWrite(w2, to_be_bytes(key.index))
        w4 == AndWrite(w3, key.chain_code)
    IN  w4

\* `written += Self::write_key_details(writer, key)?`
AndWriteKeyDetails(w, key) ==
    IF w.tag # "Ok" THEN w
    ELSE LET d == write_key_details(w.sink, key)
         IN  IF d.tag # "Ok" THEN d ELSE WOk(w.n + d.n, d.sink)

write_xpub(P, writer, key) ==
    LET version == CASE key.hint = "Legacy" -> P.PUB_VERSION
                     [] key.hint = "Compatibility" -> P.BIP49_PUB_VERSION
                     [] key.hint = "SegWit" -> P.BIP84_PUB_VERSION
        w1 == AndWrite(WOk(0, writer), to_be_bytes(version))
        w2 == AndWriteKeyDetails(w1, key)
        w3 == AndWrite(w2, pubkey_bytes(key))
    IN  w3

\* write_xpriv with the version of the Legacy hint whatever the key's hint
write_xpriv_legacy_version(P, writer, key) ==
    LET w1 == AndWrite(WOk(0, writer), to_be_bytes(P.PRIV_VERSION))
        w2 == AndWriteKeyDetails(w1, key)
        w3 == AndWrite(w2, << 0 >>)
        w4 == AndWrite(w3, privkey_bytes(key))
    IN  w4

write_xpriv(P, writer, key) ==
    LET version == CASE key.hint = "Legacy" -> P.PRIV_VERSION
                     [] key.hint = "Compatibility" -> P.BIP49_PRIV_VERSION
                     [] key.hint = "SegWit" -> P.BIP84_PRIV_VERSION
        w1 == AndWrite(WOk(0, writer), to_be_bytes(version))
        w2 == AndWriteKeyDetails(w1, key)
        w3 == AndWrite(w2, << 0 >>)
        w4 == AndWrite(w3, privkey_bytes(key))
    IN  w4

(***************************************************************************)
(* XKeyEncoder: the readers.  A read returns the key and what is left of   *)
(* the reader, or the error of the first step that failed; `steps` lists   *)
(* the steps it took, the failing one last.                                *)
(***************************************************************************)
KOk(key, rest, steps) ==
    [ tag |-> "Ok", key |-> key, rest |-> rest, err |-> NoErr, steps |-> steps ]

\* the error e met after the steps, and what is left of the reader then
KErr(e, steps, rest) ==
    [ tag |-> "Err", key |-> NoKey, rest |-> rest, err |-> e, steps |-> steps ]

read_depth(reader) ==
    LET buf == read_exact(reader, 1)
    IN  IF buf.tag # "Ok" THEN buf ELSE ROk(buf.val[1], buf.rest)

read_parent(reader) ==
    LET buf == read_exact(reader, 4)
    IN  IF buf.tag # "Ok" THEN buf ELSE ROk(buf.val, buf.rest)

\* read_index with the four bytes taken least significant first
read_index_le(reader) ==
    LET buf == read_exact(reader, 4)
    IN  IF buf.tag # "Ok" THEN buf
        ELSE ROk(from_be_bytes(<< buf.val[4], buf.val[3], buf.val[2], buf.val[1] >>), buf.rest)

read_index(reader) ==
    LET buf == read_exact(reader, 4)
    IN  IF buf.tag # "Ok" THEN buf ELSE ROk(from_be_bytes(buf.val), buf.rest)

read_chain_code(reader) ==
    LET buf == read_exact(reader, 32)
    IN  IF buf.tag # "Ok" THEN buf ELSE ROk(buf.val, buf.rest)

XPrivSteps == << "depth", "parent", "index", "chain_code", "padding", "scalar", "from_privkey_array" >>

XPubSteps == << "depth", "parent", "index", "chain_code", "point", "from_pubkey_array" >>

\* read_xpriv_body comparing the padding byte with 0 after the scalar was
\* read and parsed
read_xpriv_body_late_padding(reader, hint, backend) ==
    LET depth == read_depth(reader) IN
    IF depth.tag # "Ok" THEN KErr(depth.err, SubSeq(XPrivSteps, 1, 1), depth.rest) ELSE
    LET parent == read_parent(depth.rest) IN
    IF parent.tag # "Ok" THEN KErr(parent.err, SubSeq(XPrivSteps, 1, 2), parent.rest) ELSE
    LET index == read_index(parent.rest) IN
    IF index.tag # "Ok" THEN KErr(index.err, SubSeq(XPrivSteps, 1, 3), index.rest) ELSE
    LET chain_code == read_chain_code(index.rest) IN
    IF chain_code.tag # "Ok" THEN KErr(chain_code.err, SubSeq(XPrivSteps, 1, 4), chain_code.rest) ELSE
    LET pad == read_exact(chain_code.rest, 1) IN
    IF pad.tag # "Ok" THEN KErr(pad.err, SubSeq(XPrivSteps, 1, 5), pad.rest) ELSE
    LET buf == read_exact(pad.rest, 32) IN
    IF buf.tag # "Ok" THEN KErr(buf.err, SubSeq(XPrivSteps, 1, 6), buf.rest) ELSE
    LET key == from_privkey_array(buf.val) IN
    IF key.tag # "Ok" THEN KErr(key.err, XPrivSteps, buf.rest) ELSE
    IF pad.val # << 0 >> THEN KErr(BadPadding(pad.val[1]), XPrivSteps, buf.rest) ELSE
    KOk([ kind |-> "xpriv", depth |-> depth.val, parent |-> parent.val,
          index |-> index.val, chain_code |-> chain_code.val, hint |-> hint,
          key |-> key.val, backend |-> backend ],
        buf.rest, XPrivSteps)

\* read_xpriv_body without the comparison of the padding byte with 0
read_xpriv_body_any_padding(reader, hint, backend) ==
    LET depth == read_depth(reader) IN
    IF depth.tag # "Ok" THEN KErr(depth.err, SubSeq(XPrivSteps, 1, 1), depth.rest) ELSE
    LET parent == read_parent(depth.rest) IN
    IF parent.tag # "Ok" THEN KErr(parent.err, SubSeq(XPrivSteps, 1, 2), parent.rest) ELSE
    LET index == read_index(parent.rest) IN
    IF index.tag # "Ok" THEN KErr(index.err, SubSeq(XPrivSteps, 1, 3), index.rest) ELSE
    LET chain_code == read_chain_code(index.rest) IN
    IF chain_code.tag # "Ok" THEN KErr(chain_code.err, SubSeq(XPrivSteps, 1, 4), chain_code.rest) ELSE
    LET pad == read_exact(chain_code.rest, 1) IN
    IF pad.tag # "Ok" THEN KErr(pad.err, SubSeq(XPrivSteps, 1, 5), pad.rest) ELSE
    LET buf == read_exact(pad.rest, 32) IN
    IF buf.tag # "Ok" THEN KErr(buf.err, SubSeq(XPrivSteps, 1, 6), buf.rest) ELSE
    LET key == from_privkey_array(buf.val) IN
    IF key.tag # "Ok" THEN KErr(key.err, XPrivSteps, buf.rest) ELSE
    KOk([ kind |-> "xpriv", depth |-> depth.val, parent |-> parent.val,
          index |-> index.val, chain_code |-> chain_code.val, hint |-> hint,
          key |-> key.val, backend |-> backend ],
        buf.rest, XPrivSteps)

read_xpriv_body(reader, hint, backend) ==
    LET depth == read_depth(reader) IN
    IF depth.tag # "Ok" THEN KErr(depth.err, SubSeq(XPrivSteps, 1, 1), depth.rest) ELSE
    LET parent == read_parent(depth.rest) IN
    IF parent.tag # "Ok" THEN KErr(parent.err, SubSeq(XPrivSteps, 1, 2), parent.rest) ELSE
    LET index == read_index(parent.rest) IN
    IF index.tag # "Ok" THEN KErr(index.err, SubSeq(XPrivSteps, 1, 3), index.rest) ELSE
    LET chain_code == read_chain_code(index.rest) IN
    IF chain_code.tag # "Ok" THEN KErr(chain_code.err, SubSeq(XPrivSteps, 1, 4), chain_code.rest) ELSE
    LET pad == read_exact(chain_code.rest, 1) IN
    IF pad.tag # "Ok" THEN KErr(pad.err, SubSeq(XPrivSteps, 1, 5), pad.rest) ELSE
    IF pad.val # << 0 >> THEN KErr(BadPadding(pad.val[1]), SubSeq(XPrivSteps, 1, 5), pad.rest) ELSE
    LET buf == read_exact(pad.rest, 32) IN
    IF buf.tag # "Ok" THEN KErr(buf.err, SubSeq(XPrivSteps, 1, 6), buf.rest) ELSE
    LET key == from_privkey_array(buf.val) IN
    IF key.tag # "Ok" THEN KErr(key.err, XPrivSteps, buf.rest) ELSE
    KOk([ kind |-> "xpriv", depth |-> depth.val, parent |-> parent.val,
          index |-> index.val, chain_code |-> chain_code.val, hint |-> hint,
          key |-> key.val, backend |-> backend ],
        buf.rest, XPrivSteps)

\* read_xpub_body reading the reader to its end after the point
read_xpub_body_to_end(reader, hint, backend) ==
    LET depth == read_depth(reader) IN
    IF depth.tag # "Ok" THEN KErr(depth.err, SubSeq(XPubSteps, 1, 1), depth.rest) ELSE
    LET parent == read_parent(depth.rest) IN
    IF parent.tag # "Ok" THEN KErr(parent.err, SubSeq(XPubSteps, 1, 2), parent.rest) ELSE
    LET index == read_index(parent.rest) IN
    IF index.tag # "Ok" THEN KErr(index.err, SubSeq(XPubSteps, 1, 3), index.rest) ELSE
    LET chain_code == read_chain_code(index.rest) IN
    IF chain_code.tag # "Ok" THEN KErr(chain_code.err, SubSeq(XPubSteps, 1, 4), chain_code.rest) ELSE
    LET buf == read_exact(chain_code.rest, 33) IN
    IF buf.tag # "Ok" THEN KErr(buf.err, SubSeq(XPubSteps, 1, 5), buf.rest) ELSE
    LET key == from_pubkey_array(buf.val) IN
    IF key.tag # "Ok" THEN KErr(key.err, XPubSteps, buf.rest) ELSE
    KOk([ kind |-> "xpub", depth |-> depth.val, parent |-> parent.val,
          index |-> index.val, chain_code |-> chain_code.val, hint |-> hint,
          key |-> key.val, backend |-> backend ],
        <<>>, XPubSteps)

read_xpub_body(reader, hint, backend) ==
    LET depth == read_depth(reader) IN
    IF depth.tag # "Ok" THEN KErr(depth.err, SubSeq(XPubSteps, 1, 1), depth.rest) ELSE
    LET parent == read_parent(depth.rest) IN
    IF parent.tag # "Ok" THEN KErr(parent.err, SubSeq(XPubSteps, 1, 2), parent.rest) ELSE
    LET index == read_index(parent.rest) IN
    IF index.tag # "Ok" THEN KErr(index.err, SubSeq(XPubSteps, 1, 3), index.rest) ELSE
    LET chain_code == read_chain_code(index.rest) IN
    IF chain_code.tag # "Ok" THEN KErr(chain_code.err, SubSeq(XPubSteps, 1, 4), chain_code.rest) ELSE
    LET buf == read_exact(chain_code.rest, 33) IN
    IF buf.tag # "Ok" THEN KErr(buf.err, SubSeq(XPubSteps, 1, 5), buf.rest) ELSE
    LET key == from_pubkey_array(buf.val) IN
    IF key.tag # "Ok" THEN KErr(key.err, XPubSteps, buf.rest) ELSE
    KOk([ kind |-> "xpub", depth |-> depth.val, parent |-> parent.val,
          index |-> index.val, chain_code |-> chain_code.val, hint |-> hint,
          key |-> key.val, backend |-> backend ],
        buf.rest, XPubSteps)

\* the body's outcome after the 4 version bytes were read
AfterVersion(body) == [ body EXCEPT !.steps = << "version" >> \o @ ]

\* read_xpriv_without_network reading the body from the start of the
\* reader, the 4 version bytes not skipped
read_xpriv_without_network_unskipped(reader, backend) ==
    LET buf == read_exact(reader, 4) IN
    IF buf.tag # "Ok" THEN KErr(buf.err, << "version" >>, buf.rest) ELSE
    AfterVersion(read_xpriv_body(reader, "Legacy", backend))

read_xpriv_without_network(reader, backend) ==
    LET buf == read_exact(reader, 4) IN
    IF buf.tag # "Ok" THEN KErr(buf.err, << "version" >>, buf.rest) ELSE
    AfterVersion(read_xpriv_body(buf.rest, "Legacy", backend))

read_xpub_without_network(reader, backend) ==
    LET buf == read_exact(reader, 4) IN
    IF buf.tag # "Ok" THEN KErr(buf.err, << "version" >>, buf.rest) ELSE
    AfterVersion(read_xpub_body(buf.rest, "Legacy", backend))

\* the hint of the first version constant equal to version_bytes, compared
\* in the order Legacy, Compatibility, SegWit; "none" when none is equal
\* PrivHint with the hints of the last two comparisons exchanged
PrivHintExchanged(P, version_bytes) ==
    IF version_bytes = P.PRIV_VERSION THEN "Legacy"
    ELSE IF version_bytes = P.BIP49_PRIV_VERSION THEN "SegWit"
    ELSE IF version_bytes = P.BIP84_PRIV_VERSION THEN "Compatibility"
    ELSE "none"

PrivHint(P, version_bytes) ==
    IF version_bytes = P.PRIV_VERSION THEN "Legacy"
    ELSE IF version_bytes = P.BIP49_PRIV_VERSION THEN "Compatibility"
    ELSE IF version_bytes = P.BIP84_PRIV_VERSION THEN "SegWit"
    ELSE "none"

\* PubHint taking the private-key versions too
PubHintOfEitherType(P, version_bytes) ==
    IF version_bytes = P.PUB_VERSION \/ version_bytes = P.PRIV_VERSION THEN "Legacy"
    ELSE IF version_bytes = P.BIP49_PUB_VERSION \/ version_bytes = P.BIP49_PRIV_VERSION
    THEN "Compatibility"
    ELSE IF version_bytes = P.BIP84_PUB_VERSION \/ version_bytes = P.BIP84_PRIV_VERSION
    THEN "SegWit"
    ELSE "none"

PubHint(P, version_bytes) ==
    IF version_bytes = P.PUB_VERSION THEN "Legacy"
    ELSE IF version_bytes = P.BIP49_PUB_VERSION THEN "Compatibility"
    ELSE IF version_bytes = P.BIP84_PUB_VERSION THEN "SegWit"
    ELSE "none"

\* read_xpriv taking the Legacy hint when no version constant is equal
read_xpriv_defaulting(P, reader, backend) ==
    LET buf == read_exact(reader, 4) IN
    IF buf.tag # "Ok" THEN KErr(buf.err, << "version" >>, buf.rest) ELSE
    LET hint == PrivHint(P, from_be_bytes(buf.val)) IN
    AfterVersion(read_xpriv_body(buf.rest, IF hint = "none" THEN "Legacy" ELSE hint, backend))

read_xpriv(P, reader, backend) ==
    LET buf == read_exact(reader, 4) IN
    IF buf.tag # "Ok" THEN KErr(buf.err, << "version" >>, buf.rest) ELSE
    LET hint == PrivHint(P, from_be_bytes(buf.val)) IN
    IF hint = "none" THEN KErr(BadXPrivVersionBytes(buf.val), << "version" >>, buf.rest) ELSE
    AfterVersion(read_xpriv_body(buf.rest, hint, backend))

read_xpub(P, reader, backend) ==
    LET buf == read_exact(reader, 4) IN
    IF buf.tag # "Ok" THEN KErr(buf.err, << "version" >>, buf.rest) ELSE
    LET hint == PubHint(P, from_be_bytes(buf.val)) IN
    IF hint = "none" THEN KErr(BadXPrivVersionBytes(buf.val), << "version" >>, buf.rest) ELSE
    AfterVersion(read_xpub_body(buf.rest, hint, backend))

(***************************************************************************)
(* Hash256 (coins_core::hashes): SHA-256 applied twice.  32-bit words are  *)
(* pairs of 16-bit halves; the bitwise operations go nibble by nibble      *)
(* through the tables below.                                               *)
(***************************************************************************)
SHA256_K ==
    << <<17034, 12184>>, <<28983, 17553>>, <<46528, 64463>>, <<59829, 56229>>,
       <<14678, 49755>>, <<23025, 4593>>, <<37439, 33444>>, <<43804, 24277>>,
       <<55303, 43672>>, <<4739, 23297>>, <<9265, 34238>>, <<21772, 32195>>,
       <<29374, 23924>>, <<32990, 45566>>, <<39900, 1703>>, <<49563, 61812>>,
       <<58523, 27073>>, <<61374, 18310>>, <<4033, 40390>>, <<9228, 41420>>,
       <<11753, 11375>>, <<19060, 33962>>, <<23728, 43484>>, <<30457, 35034>>,
       <<38974, 20818>>, <<43057, 50797>>, <<45059, 10184>>, <<48985, 32711>>,
       <<50912, 3059>>, <<54695, 37191>>, <<1738, 25425>>, <<5161, 10599>>,
       <<10167, 2693>>, <<11803, 8504>>, <<19756, 28156>>, <<21304, 3347>>,
       <<25866, 29524>>, <<30314, 2747>>, <<33218, 51502>>, <<37490, 11397>>,
       <<41663, 59553>>, <<43034, 26187>>, <<49739, 35696>>, <<51052, 20899>>,
       <<53650, 59417>>, <<54937, 1572>>, <<62478, 13701>>, <<4202, 41072>>,
       <<6564, 49430>>, <<7735, 27656>>, <<10056, 30540>>, <<13488, 48309>>,
       <<14620, 3251>>, <<20184, 43594>>, <<23452, 51791>>, <<26670, 28659>>,
       <<29839, 33518>>, <<30885, 25455>>, <<33992, 30740>>, <<36039, 520>>,
       <<37054, 65530>>, <<42064, 27883>>, <<48889, 41975>>, <<50801, 30962>> >>

SHA256_H0 ==
    << <<27145, 58983>>, <<47975, 44677>>, <<15470, 62322>>, <<42319, 62778>>,
       <<20750, 21119>>, <<39685, 26764>>, <<8067, 55723>>, <<23520, 52505>> >>

XorTable ==
    << <<0, 1, 2, 3, 4, 5, 6, 7, 8, 9, 10, 11, 12, 13, 14, 15>>,
       <<1, 0, 3, 2, 5, 4, 7, 6, 9, 8, 11, 10, 13, 12, 15, 14>>,
       <<2, 3, 0, 1, 6, 7, 4, 5, 10, 11, 8, 9, 14, 15, 12, 13>>,
       <<3, 2, 1, 0, 7, 6, 5, 4, 11, 10, 9, 8, 15, 14, 13, 12>>,
       <<4, 5, 6, 7, 0, 1, 2, 3, 12, 13, 14, 15, 8, 9, 10, 11>>,
       <<5, 4, 7, 6, 1, 0, 3, 2, 13, 12, 15, 14, 9, 8, 11, 10>>,
       <<6, 7, 4, 5, 2, 3, 0, 1, 14, 15, 12, 13, 10, 11, 8, 9>>,
       <<7, 6, 5, 4, 3, 2, 1, 0, 15, 14, 13, 12, 11, 10, 9, 8>>,
       <<8, 9, 10, 11, 12, 13, 14, 15, 0, 1, 2, 3, 4, 5, 6, 7>>,
       <<9, 8, 11, 10, 13, 12, 15, 14, 1, 0, 3, 2, 5, 4, 7, 6>>,
       <<10, 11, 8, 9, 14, 15, 12, 13, 2, 3, 0, 1, 6, 7, 4, 5>>,
       <<11, 10, 9, 8, 15, 14, 13, 12, 3, 2, 1, 0, 7, 6, 5, 4>>,
       <<12, 13, 14, 15, 8, 9, 10, 11, 4, 5, 6, 7, 0, 1, 2, 3>>,
       <<13, 12, 15, 14, 9, 8, 11, 10, 5, 4, 7, 6, 1, 0, 3, 2>>,
       <<14, 15, 12, 13, 10, 11, 8, 9, 6, 7, 4, 5, 2, 3, 0, 1>>,
       <<15, 14, 13, 12, 11, 10, 9, 8, 7, 6, 5, 4, 3, 2, 1, 0>> >>

AndTable ==
    << <<0, 0, 0, 0, 0, 0, 0, 0, 0, 0, 0, 0, 0, 0, 0, 0>>,
       <<0, 1, 0, 1, 0, 1, 0, 1, 0, 1, 0, 1, 0, 1, 0, 1>>,
       <<0, 0, 2, 2, 0, 0, 2, 2, 0, 0, 2, 2, 0, 0, 2, 2>>,
       <<0, 1, 2, 3, 0, 1, 2, 3, 0, 1, 2, 3, 0, 1, 2, 3>>,
       <<0, 0, 0, 0, 4, 4, 4, 4, 0, 0, 0, 0, 4, 4, 4, 4>>,
       <<0, 1, 0, 1, 4, 5, 4, 5, 0, 1, 0, 1, 4, 5, 4, 5>>,
       <<0, 0, 2, 2, 4, 4, 6, 6, 0, 0, 2, 2, 4, 4, 6, 6>>,
       <<0, 1, 2, 3, 4, 5, 6, 7, 0, 1, 2, 3, 4, 5, 6, 7>>,
       <<0, 0, 0, 0, 0, 0, 0, 0, 8, 8, 8, 8, 8, 8, 8, 8>>,
       <<0, 1, 0, 1, 0, 1, 0, 1, 8, 9, 8, 9, 8, 9, 8, 9>>,
       <<0, 0, 2, 2, 0, 0, 2, 2, 8, 8, 10, 10, 8, 8, 10, 10>>,
       <<0, 1, 2, 3, 0, 1, 2, 3, 8, 9, 10, 11, 8, 9, 10, 11>>,
       <<0, 0, 0, 0, 4, 4, 4, 4, 8, 8, 8, 8, 12, 12, 12, 12>>,
       <<0, 1, 0, 1, 4, 5, 4, 5, 8, 9, 8, 9, 12, 13, 12, 13>>,
       <<0, 0, 2, 2, 4, 4, 6, 6, 8, 8, 10, 10, 12, 12, 14, 14>>,
       <<0, 1, 2, 3, 4, 5, 6, 7, 8, 9, 10, 11, 12, 13, 14, 15>> >>

Nibbles(a) == << a \div 4096, (a \div 256) % 16, (a \div 16) % 16, a % 16 >>

Bitwise16(table, a, b) ==
    LET na == Nibbles(a)
        nb == Nibbles(b)
    IN  table[na[1] + 1][nb[1] + 1] * 4096 + table[na[2] + 1][nb[2] + 1] * 256
        + table[na[3] + 1][nb[3] + 1] * 16 + table[na[4] + 1][nb[4] + 1]

\* the operations on words evaluate their operands first
XorW(x, y) ==
    Then(<< x, y >>, << Bitwise16(XorTable, x[1], y[1]), Bitwise16(XorTable, x[2], y[2]) >>)

AndW(x, y) ==
    Then(<< x, y >>, << Bitwise16(AndTable, x[1], y[1]), Bitwise16(AndTable, x[2], y[2]) >>)

NotW(x) == << 65535 - x[1], 65535 - x[2] >>

AddW(x, y) ==
    LET lo == x[2] + y[2]
        hi == x[1] + y[1] + (lo \div 65536)
    IN  Then(<< x, y >>, << hi % 65536, lo % 65536 >>)

RotR(x, n) ==
    LET hi == IF n >= 16 THEN x[2] ELSE x[1]
        lo == IF n >= 16 THEN x[1] ELSE x[2]
        m  == 2 ^ (n % 16)
        c  == 65536 \div m
    IN  << (hi \div m) + (lo % m) * c, (lo \div m) + (hi % m) * c >>

ShR(x, n) ==
    LET m == 2 ^ (n % 16)
        c == 65536 \div m
    IN  IF n >= 16 THEN << 0, x[1] \div m >>
        ELSE << x[1] \div m, (x[2] \div m) + (x[1] % m) * c >>

Ch(e, f, g) == XorW(AndW(e, f), AndW(NotW(e), g))
Maj(a, b, c) == XorW(XorW(AndW(a, b), AndW(a, c)), AndW(b, c))
BigSigma0(a) == XorW(XorW(RotR(a, 2), RotR(a, 13)), RotR(a, 22))
BigSigma1(e) == XorW(XorW(RotR(e, 6), RotR(e, 11)), RotR(e, 25))
SmallSigma0(x) == XorW(XorW(RotR(x, 7), RotR(x, 18)), ShR(x, 3))
SmallSigma1(x) == XorW(XorW(RotR(x, 17), RotR(x, 19)), ShR(x, 10))

\* the message schedule, extended by the words lo..hi: the range is cut in
\* eight parts of n words, of which the last ones may be empty
RECURSIVE Schedule(_, _, _)
Schedule(w, lo, hi) ==
    IF lo > hi THEN w
    ELSE IF lo = hi
    THEN Append(w, AddW(AddW(SmallSigma1(w[lo - 2]), w[lo - 7]),
                        AddW(SmallSigma0(w[lo - 15]), w[lo - 16])))
    ELSE LET n == (hi - lo + 8) \div 8
             w1 == Schedule(w, lo, lo + n - 1)
             w2 == Schedule(w1, lo + n, Min(hi, lo + 2 * n - 1))
             w3 == Schedule(w2, lo + 2 * n, Min(hi, lo + 3 * n - 1))
             w4 == Schedule(w3, lo + 3 * n, Min(hi, lo + 4 * n - 1))
             w5 == Schedule(w4, lo + 4 * n, Min(hi, lo + 5 * n - 1))
             w6 == Schedule(w5, lo + 5 * n, Min(hi, lo + 6 * n - 1))
             w7 == Schedule(w6, lo + 6 * n, Min(hi, lo + 7 * n - 1))
         IN  Then(<< w1, w2, w3, w4, w5, w6, w7 >>, Schedule(w7, lo + 7 * n, hi))

\* the working variables after a round with the temporaries t1 and t2
Step(s, t1, t2) ==
    Then(<< t1, t2 >>, << AddW(t1, t2), s[1], s[2], s[3], AddW(s[4], t1), s[5], s[6], s[7] >>)

Round(s, w, t) ==
    Step(s,
         AddW(AddW(AddW(s[8], BigSigma1(s[5])), AddW(Ch(s[5], s[6], s[7]), SHA256_K[t])), w[t]),
         AddW(BigSigma0(s[1]), Maj(s[1], s[2], s[3])))

\* the rounds lo..hi on the working variables s, in eight parts of n rounds
RECURSIVE Rounds(_, _, _, _)
Rounds(s, w, lo, hi) ==
    IF lo > hi THEN s
    ELSE IF lo = hi THEN Round(s, w, lo)
    ELSE LET n == (hi - lo + 8) \div 8
             s1 == Rounds(s, w, lo, lo + n - 1)
             s2 == Rounds(s1, w, lo + n, Min(hi, lo + 2 * n - 1))
             s3 == Rounds(s2, w, lo + 2 * n, Min(hi, lo + 3 * n - 1))
             s4 == Rounds(s3, w, lo + 3 * n, Min(hi, lo + 4 * n - 1))
             s5 == Rounds(s4, w, lo + 4 * n, Min(hi, lo + 5 * n - 1))
             s6 == Rounds(s5, w, lo + 5 * n, Min(hi, lo + 6 * n - 1))
             s7 == Rounds(s6, w, lo + 6 * n, Min(hi, lo + 7 * n - 1))
         IN  Then(<< s1, s2, s3, s4, s5, s6, s7 >>, Rounds(s7, w, lo + 7 * n, hi))

\* the sixteen big-endian words of a 64-byte block
Words(block) ==
    [ i \in 1..16 |-> << block[4 * i - 3] * 256 + block[4 * i - 2],
                         block[4 * i - 1] * 256 + block[4 * i] >> ]

\* the hash value h plus the working variables s, word by word
AddState(h, s) ==
    Then(s, << AddW(h[1], s[1]), AddW(h[2], s[2]), AddW(h[3], s[3]), AddW(h[4], s[4]),
               AddW(h[5], s[5]), AddW(h[6], s[6]), AddW(h[7], s[7]), AddW(h[8], s[8]) >>)

\* the hash value h after the block whose message schedule is w
CompressWith(h, w) == Then(w, AddState(h, Rounds(h, w, 1, 64)))

Compress(h, block) == CompressWith(h, Schedule(Words(block), 17, 64))

Pad(msg) ==
    LET n == Len(msg)
        z == (119 - (n % 64)) % 64
        bits == n * 8
    IN  msg \o <<128>> \o Zeros(z) \o <<0, 0, 0, 0>> \o
        << bits \div 16777216, (bits \div 65536) % 256, (bits \div 256) % 256, bits % 256 >>

RECURSIVE Blocks(_, _, _)
Blocks(h, p, i) ==
    IF i > Len(p) THEN h
    ELSE Then(h, Blocks(Compress(h, SubSeq(p, i, i + 63)), p, i + 64))

WordBytes(x) == << x[1] \div 256, x[1] % 256, x[2] \div 256, x[2] % 256 >>

\* the 32 bytes of the hash value h
Digest(h) ==
    Then(h, WordBytes(h[1]) \o WordBytes(h[2]) \o WordBytes(h[3]) \o WordBytes(h[4]) \o
            WordBytes(h[5]) \o WordBytes(h[6]) \o WordBytes(h[7]) \o WordBytes(h[8]))

Sha256(msg) == Then(msg, Digest(Blocks(SHA256_H0, Pad(msg), 1)))

Hash256(msg) == Sha256(Sha256(msg))

(***************************************************************************)
(* Base58 (the bs58 crate, Bitcoin alphabet).  A leading zero byte is the  *)
(* character "1"; the rest is the big-endian number in base 58.            *)
(***************************************************************************)
Alphabet ==
    << "1", "2", "3", "4", "5", "6", "7", "8", "9", "A", "B", "C", "D", "E", "F", "G",
       "H", "J", "K", "L", "M", "N", "P", "Q", "R", "S", "T", "U", "V", "W", "X", "Y",
       "Z", "a", "b", "c", "d", "e", "f", "g", "h", "i", "j", "k", "m", "n", "o", "p",
       "q", "r", "s", "t", "u", "v", "w", "x", "y", "z" >>

AlphabetSet == { Alphabet[i] : i \in 1..58 }

Digit58(c) == (CHOOSE i \in 1..58 : Alphabet[i] = c) - 1

\* the big-endian number num[lo..hi], preceded by the remainder r, divided
\* by 58: the quotient's bytes and the remainder
DivRem58Join(left, right) == [ q |-> left.q \o right.q, r |-> right.r ]

RECURSIVE DivRem58(_, _, _, _)
DivRem58(num, lo, hi, r) ==
    IF lo = hi
    THEN LET acc == r * 256 + num[lo]
         IN  [ q |-> << acc \div 58 >>, r |-> acc % 58 ]
    ELSE LET mid == (lo + hi) \div 2
             left == DivRem58(num, lo, mid, r)
         IN  Then(left, DivRem58Join(left, DivRem58(num, mid + 1, hi, left.r)))

\* one more digit: num becomes num \div 58, and the digit num % 58 goes in
\* front of str
Digit58Step(st) ==
    IF st.num = <<>> THEN st
    ELSE LET d == DivRem58(st.num, 1, Len(st.num), 0)
         IN  [ num |-> Drop(d.q, LeadingCount(d.q, 0)),
               str |-> << Alphabet[d.r + 1] >> \o st.str ]

\* n digits more, in eight parts of c digits
RECURSIVE Digits58(_, _)
Digits58(st, n) ==
    IF n <= 0 THEN st
    ELSE IF n = 1 THEN Digit58Step(st)
    ELSE LET c == (n + 7) \div 8
             a1 == Digits58(st, c)
             a2 == Digits58(a1, Min(c, n - c))
             a3 == Digits58(a2, Min(c, n - 2 * c))
             a4 == Digits58(a3, Min(c, n - 3 * c))
             a5 == Digits58(a4, Min(c, n - 4 * c))
             a6 == Digits58(a5, Min(c, n - 5 * c))
             a7 == Digits58(a6, Min(c, n - 6 * c))
         IN  Then(<< a1, a2, a3, a4, a5, a6, a7 >>, Digits58(a7, n - 7 * c))

\* bs58::encode(data).into_string(); a number of k bytes has fewer than
\* 2 * k digits in base 58
bs58_encode(data) ==
    LET z == LeadingCount(data, 0)
        num == Drop(data, z)
    IN  Then(data, [ i \in 1..z |-> "1" ] \o Digits58([ num |-> num, str |-> <<>> ], 2 * Len(num)).str)

\* the big-endian number num[lo..hi] times 58, plus carry: its bytes and
\* the carry out of its first byte
MulAdd58Join(left, right) == [ out |-> left.out \o right.out, carry |-> left.carry ]

RECURSIVE MulAdd58(_, _, _, _)
MulAdd58(num, lo, hi, carry) ==
    IF lo = hi
    THEN LET val == num[lo] * 58 + carry
         IN  [ out |-> << val % 256 >>, carry |-> val \div 256 ]
    ELSE LET mid == (lo + hi) \div 2
             right == MulAdd58(num, mid + 1, hi, carry)
         IN  Then(right, MulAdd58Join(MulAdd58(num, lo, mid, right.carry), right))

\* num * 58 + val, without leading zero bytes
Push58(num, val) ==
    IF num = <<>> THEN (IF val = 0 THEN <<>> ELSE << val >>)
    ELSE LET m == MulAdd58(num, 1, Len(num), val)
         IN  IF m.carry = 0 THEN m.out ELSE << m.carry >> \o m.out

\* the number num followed by the digits str[lo..hi], in eight parts of n
\* digits
RECURSIVE Number58(_, _, _, _)
Number58(str, lo, hi, num) ==
    IF lo > hi THEN num
    ELSE IF lo = hi THEN Push58(num, Digit58(str[lo]))
    ELSE LET n == (hi - lo + 8) \div 8
             n1 == Number58(str, lo, lo + n - 1, num)
             n2 == Number58(str, lo + n, Min(hi, lo + 2 * n - 1), n1)
             n3 == Number58(str, lo + 2 * n, Min(hi, lo + 3 * n - 1), n2)
             n4 == Number58(str, lo + 3 * n, Min(hi, lo + 4 * n - 1), n3)
             n5 == Number58(str, lo + 4 * n, Min(hi, lo + 5 * n - 1), n4)
             n6 == Number58(str, lo + 5 * n, Min(hi, lo + 6 * n - 1), n5)
             n7 == Number58(str, lo + 6 * n, Min(hi, lo + 7 * n - 1), n6)
         IN  Then(<< n1, n2, n3, n4, n5, n6, n7 >>, Number58(str, lo + 7 * n, hi, n7))

\* bs58::decode(s).into_vec()
bs58_decode(s) ==
    IF \E i \in 1..Len(s) : s[i] \notin AlphabetSet THEN RErr(B58Error)
    ELSE ROk(Zeros(LeadingCount(s, "1"))
             \o (IF s = <<>> THEN <<>> ELSE Number58(s, 1, Len(s), <<>>)), <<>>)

(***************************************************************************)
(* The checksum codec.  On fewer than 4 decoded bytes `data.len() - 4`     *)
(* underflows: the subtraction panics where overflow checks are on, and    *)
(* where they are off idx wraps to a value above data.len() and the slice  *)
(* `&data[..idx]` panics.  Either build ends in a panic.                   *)
(***************************************************************************)
RPanic == [ tag |-> "Panic", val |-> 0, rest |-> <<>>, err |-> NoErr ]

\* decode_b58_check without the comparison of the checksums
decode_b58_check_unchecked(s) ==
    LET data == bs58_decode(s) IN
    IF data.tag # "Ok" THEN data ELSE
    IF Len(data.val) < 4 THEN RPanic ELSE
    ROk(SubSeq(data.val, 1, Len(data.val) - 4), <<>>)

decode_b58_check(s) ==
    LET data == bs58_decode(s) IN
    IF data.tag # "Ok" THEN data ELSE
    IF Len(data.val) < 4 THEN RPanic ELSE
    LET idx == Len(data.val) - 4
        payload == SubSeq(data.val, 1, idx)
        checksum == SubSeq(data.val, idx + 1, Len(data.val))
        digest == Hash256(payload)
        expected == SubSeq(digest, 1, 4)
    IN  IF expected # checksum THEN RErr(BadB58Checksum) ELSE ROk(payload, <<>>)

\* encode_b58_check with the last 4 bytes of the digest for a checksum
encode_b58_check_digest_tail(v) ==
    LET digest == Hash256(v)
        checksum == SubSeq(digest, 29, 32)
        data == v \o checksum
    IN  bs58_encode(data)

encode_b58_check(v) ==
    LET digest == Hash256(v)
        checksum == SubSeq(digest, 1, 4)
        data == v \o checksum
    IN  bs58_encode(data)

(***************************************************************************)
(* XKeyEncoder: the Base58Check forms.                                     *)
(***************************************************************************)
SOk(str) == [ tag |-> "Ok", str |-> str, err |-> NoErr ]

SErr(e) == [ tag |-> "Err", str |-> <<>>, err |-> e ]

KPanic == [ tag |-> "Panic", key |-> NoKey, rest |-> <<>>, err |-> NoErr, steps |-> <<>> ]

xpriv_to_base58(P, k) ==
    LET v == write_xpriv(P, VecSink, k)
    IN  IF v.tag # "Ok" THEN SErr(v.err) ELSE SOk(encode_b58_check(v.sink.data))

xpub_to_base58(P, k) ==
    LET v == write_xpub(P, VecSink, k)
    IN  IF v.tag # "Ok" THEN SErr(v.err) ELSE SOk(encode_b58_check(v.sink.data))

\* xpriv_from_base58 handing the key a backend of its own when it is given
\* none
xpriv_from_base58_own_backend(P, s, backend) ==
    LET data == decode_b58_check(s) IN
    IF data.tag = "Panic" THEN KPanic ELSE
    IF data.tag # "Ok" THEN KErr(data.err, <<>>, <<>>) ELSE
    read_xpriv(P, data.val, "Some")

xpriv_from_base58(P, s, backend) ==
    LET data == decode_b58_check(s) IN
    IF data.tag = "Panic" THEN KPanic ELSE
    IF data.tag # "Ok" THEN KErr(data.err, <<>>, <<>>) ELSE
    read_xpriv(P, data.val, backend)

xpub_from_base58(P, s, backend) ==
    LET data == decode_b58_check(s) IN
    IF data.tag = "Panic" THEN KPanic ELSE
    IF data.tag # "Ok" THEN KErr(data.err, <<>>, <<>>) ELSE
    read_xpub(P, data.val, backend)

(***************************************************************************)
(* The inputs a caller draws.                                              *)
(***************************************************************************)
Backends == { "None", "Some" }

\* the chain code, scalar and point of the two documentation examples
ChainCodeA ==
    << 135, 61, 255, 129, 192, 47, 82, 86, 35, 253, 31, 229, 22, 126, 172, 58,
       85, 160, 73, 222, 61, 49, 75, 180, 46, 226, 39, 255, 237, 55, 213, 8 >>

ChainCodeB ==
    << 229, 254, 161, 42, 151, 185, 39, 252, 157, 195, 210, 203, 13, 30, 161, 207,
       80, 170, 90, 31, 220, 31, 147, 62, 137, 6, 187, 56, 223, 51, 119, 189 >>

ScalarA ==
    << 232, 243, 46, 114, 61, 236, 244, 5, 26, 239, 172, 142, 44, 147, 201, 197,
       178, 20, 49, 56, 23, 205, 176, 26, 20, 148, 185, 23, 200, 67, 107, 53 >>

\* the largest valid scalar, n - 1
ScalarMax ==
    << 255, 255, 255, 255, 255, 255, 255, 255, 255, 255, 255, 255, 255, 255, 255, 254,
       186, 174, 220, 230, 175, 72, 160, 59, 191, 210, 94, 140, 208, 54, 65, 64 >>

Depths == { 0, 255 }

Parents == { << 0, 0, 0, 0 >>, << 65, 214, 59, 80 >> }

\* 0, the hardened index 0x80000001, 0x12345678
Indexes == { << 0, 0 >>, << 32768, 1 >>, << 4660, 22136 >> }

ChainCodes == { ChainCodeA, ChainCodeB }

Scalars == { ScalarA, ScalarMax }

Points == { << 2 >> \o PointXA, << 3 >> \o GeneratorX }

XKey(kind, d, p, i, c, h, k, b) ==
    [ kind |-> kind, depth |-> d, parent |-> p, index |-> i, chain_code |-> c,
      hint |-> h, key |-> k, backend |-> b ]

XPrivs ==
    { XKey("xpriv", d, p, i, c, h, k, b) :
        d \in Depths, p \in Parents, i \in Indexes, c \in ChainCodes,
        h \in Hints, k \in Scalars, b \in Backends }

XPubs ==
    { XKey("xpub", d, p, i, c, h, k, b) :
        d \in Depths, p \in Parents, i \in Indexes, c \in ChainCodes,
        h \in Hints, k \in Points, b \in Backends }

\* the keys written into the other writers and through Base58Check: the
\* root key of the documentation in each hint, and a deep hardened child
FewXPrivs ==
    { XKey("xpriv", 0, << 0, 0, 0, 0 >>, << 0, 0 >>, ChainCodeA, h, ScalarA, "None") : h \in Hints }
    \cup { XKey("xpriv", 255, << 65, 214, 59, 80 >>, << 32768, 1 >>, ChainCodeB, "Legacy", ScalarMax, "Some") }

FewXPubs ==
    { XKey("xpub", 1, << 65, 214, 59, 80 >>, << 32768, 0 >>, ChainCodeB, h, << 2 >> \o PointXA, "None") : h \in Hints }
    \cup { XKey("xpub", 255, << 0, 0, 0, 0 >>, << 4660, 22136 >>, ChainCodeA, "Legacy", << 3 >> \o GeneratorX, "Some") }

OtherSinks ==
    { SliceSink(c) : c \in { 0, 3, 45, 77, 78, 80 } }
    \cup { FailingSink(c) : c \in { 0, 45, 77, 78 } }

Sinks == { VecSink } \cup OtherSinks

\* every version constant of both networks, and values that are none
VersionBytes ==
    { to_be_bytes(v) : v \in { Main.PRIV_VERSION, Main.BIP49_PRIV_VERSION, Main.BIP84_PRIV_VERSION,
                               Main.PUB_VERSION, Main.BIP49_PUB_VERSION, Main.BIP84_PUB_VERSION,
                               Test.PRIV_VERSION, Test.BIP49_PRIV_VERSION, Test.BIP84_PRIV_VERSION,
                               Test.PUB_VERSION, Test.BIP49_PUB_VERSION, Test.BIP84_PUB_VERSION } }
    \cup { << 0, 0, 0, 0 >>, << 255, 255, 255, 255 >>, << 4, 136, 173, 229 >>, << 228, 173, 136, 4 >> }

\* the 41 bytes after the version: depth, parent, index, chain code
DetailBytes ==
    { << 0 >> \o << 0, 0, 0, 0 >> \o << 0, 0, 0, 0 >> \o ChainCodeA,
      << 255 >> \o << 65, 214, 59, 80 >> \o << 18, 52, 86, 120 >> \o ChainCodeB }

\* the last 33 bytes: a padding byte and a scalar, or a compressed point
TailBytes ==
    { << p >> \o s : p \in { 0, 1, 255 }, s \in { ScalarA, ScalarMax, CurveOrder, Zeros(32) } }
    \cup { << p >> \o x : p \in { 2, 3, 4 }, x \in { PointXA, GeneratorX } }
    \cup { << 2 >> \o Zeros(32), << 3 >> \o Zeros(31) \o << 5 >>, << 2 >> \o FieldPrime,
           << 3 >> \o Zeros(31) \o << 1 >> }

FullBuffers == { v \o d \o t : v \in VersionBytes, d \in DetailBytes, t \in TailBytes }

\* the buffers cut short or followed by more bytes: a private and a public
\* key of each network, a private key with a bad padding byte, and a
\* private key under version bytes of no network
EditedBuffers ==
    { to_be_bytes(Main.PRIV_VERSION) \o << 0 >> \o << 0, 0, 0, 0 >> \o << 0, 0, 0, 0 >> \o ChainCodeA
          \o << 0 >> \o ScalarA,
      to_be_bytes(Test.BIP49_PUB_VERSION) \o << 255 >> \o << 65, 214, 59, 80 >> \o << 18, 52, 86, 120 >>
          \o ChainCodeB \o << 2 >> \o PointXA,
      to_be_bytes(Test.BIP84_PRIV_VERSION) \o << 255 >> \o << 65, 214, 59, 80 >> \o << 18, 52, 86, 120 >>
          \o ChainCodeB \o << 1 >> \o ScalarMax,
      << 0, 0, 0, 0 >> \o << 0 >> \o << 0, 0, 0, 0 >> \o << 0, 0, 0, 0 >> \o ChainCodeA
          \o << 0 >> \o ScalarA }

TruncatedBuffers == { SubSeq(b, 1, n) : b \in EditedBuffers, n \in 0..77 }

Trailing(n) == [ i \in 1..n |-> (i * 85) % 256 ]

TrailingBuffers == { b \o Trailing(n) : b \in EditedBuffers, n \in 1..MaxTrailing }

CallerBuffers == FullBuffers \cup TruncatedBuffers \cup TrailingBuffers

\* the documentation's example strings, and the 78 bytes the first encodes
DocXprvString ==
    << "x", "p", "r", "v", "9", "s", "2", "1", "Z", "r", "Q", "H", "1", "4", "3", "K",
       "3", "Q", "T", "D", "L", "4", "L", "X", "w", "2", "F", "7", "H", "E", "K", "3",
       "w", "J", "U", "D", "2", "n", "W", "2", "n", "R", "k", "4", "s", "t", "b", "P",
       "y", "6", "c", "q", "3", "j", "P", "P", "q", "j", "i", "C", "h", "k", "V", "v",
       "v", "N", "K", "m", "P", "G", "J", "x", "W", "U", "t", "g", "6", "L", "n", "F",
       "5", "k", "e", "j", "M", "R", "N", "N", "U", "3", "T", "G", "t", "R", "B", "e",
       "J", "g", "k", "3", "3", "y", "u", "G", "B", "x", "r", "M", "P", "H", "i" >>

DocXpubString ==
    << "x", "p", "u", "b", "6", "8", "N", "Z", "i", "K", "m", "J", "W", "n", "x", "x",
       "S", "6", "a", "a", "H", "m", "n", "8", "1", "b", "v", "J", "e", "T", "E", "S",
       "w", "7", "2", "4", "C", "R", "D", "s", "6", "H", "b", "u", "c", "c", "F", "Q",
       "N", "9", "K", "u", "1", "4", "V", "Q", "r", "A", "D", "W", "g", "q", "b", "h",
       "h", "T", "H", "B", "a", "o", "h", "P", "X", "4", "C", "j", "N", "L", "f", "9",
       "f", "q", "9", "M", "Y", "o", "6", "o", "D", "a", "P", "P", "L", "P", "x", "S",
       "b", "7", "g", "w", "Q", "N", "3", "i", "h", "1", "9", "Z", "m", "4", "Y" >>

DocXprvBytes ==
    to_be_bytes(Main.PRIV_VERSION) \o << 0 >> \o << 0, 0, 0, 0 >> \o << 0, 0, 0, 0 >>
        \o ChainCodeA \o << 0 >> \o ScalarA

DocXpubBytes ==
    to_be_bytes(Main.PUB_VERSION) \o << 1 >> \o << 65, 214, 59, 80 >> \o << 128, 0, 0, 0 >>
        \o ChainCodeB \o << 2 >> \o PointXA

\* how the caller made an input: `how`, the bytes it started from, and the
\* offset (from 1) of the byte it altered
Made(how, payload, pos) == [ how |-> how, payload |-> payload, pos |-> pos ]

Given == Made("given", <<>>, 0)

Chained == Made("chained", <<>>, 0)

PayloadsOfLen(n) == { Zeros(n), [ i \in 1..n |-> (i * 37 + n) % 256 ] }

CheckPayloads == UNION { PayloadsOfLen(n) : n \in 0..MaxPayloadLen } \cup { DocXprvBytes }

\* p followed by its checksum, as the caller computes it
WithChecksum(p) == p \o SubSeq(Hash256(p), 1, 4)

Alter(buf, i, d) == [ buf EXCEPT ![i] = (@ + d) % 256 ]

AlterDeltas == { 1, 128 }

AlterPositions(n) ==
    { i \in 1..n : n <= MaxPayloadLen + 4 \/ i <= AlterHead \/ i > n - AlterTail }

\* buffers too short to hold a checksum
ShortBuffers == UNION { PayloadsOfLen(n) : n \in 0..3 }

\* strings with a character outside the alphabet
InvalidStrings == { << "0" >>, << "x", "p", "r", "v", "O" >>, << "1", "l" >>, << "I", "1", "1", "1", "1" >> }

CheckStringInputs ==
    UNION { LET b == WithChecksum(p) IN
            { [ str |-> bs58_encode(b), made |-> Made("intact", p, 0) ] }
            \cup { [ str |-> bs58_encode(Alter(b, i, d)), made |-> Made("altered", p, i) ] :
                     i \in AlterPositions(Len(b)), d \in AlterDeltas }
          : p \in CheckPayloads }
    \cup { [ str |-> bs58_encode(b), made |-> Made("short", b, 0) ] : b \in ShortBuffers }
    \cup { [ str |-> s, made |-> Made("invalid", <<>>, 0) ] : s \in InvalidStrings }

KeyStringInputs ==
    { [ str |-> DocXprvString, made |-> Made("literal", DocXprvBytes, 0) ],
      [ str |-> DocXpubString, made |-> Made("literal", DocXpubBytes, 0) ],
      [ str |-> [ DocXprvString EXCEPT ![111] = "j" ], made |-> Made("altered", DocXprvBytes, 82) ],
      [ str |-> <<>>, made |-> Made("short", <<>>, 0) ],
      [ str |-> << "1", "1", "1" >>, made |-> Made("short", << 0, 0, 0 >>, 0) ],
      [ str |-> << "x", "p", "r", "v", "O" >>, made |-> Made("invalid", <<>>, 0) ] }
    \cup { [ str |-> encode_b58_check(b \o Trailing(n)), made |-> Made("trailing", b \o Trailing(n), 0) ] :
             b \in { DocXprvBytes, DocXpubBytes }, n \in 1..MaxTrailing }

(***************************************************************************)
(* The session.  `calls` is the sequence of the codec calls made so far,   *)
(* each with its arguments and its outcome.  The first call takes its      *)
(* input from the caller's sets; a later call takes the output of the call *)
(* before it (the bytes written, the key read, the string encoded).        *)
(***************************************************************************)
NoSink == [ kind |-> "none", cap |-> 0, data |-> <<>> ]

Call(op, N, backend, sink, key, data, str, made, out) ==
    [ op |-> op, net |-> N, backend |-> backend, sink |-> sink, key |-> key,
      data |-> data, str |-> str, made |-> made, out |-> out ]

Out(tag, key, data, str, n, err, rest, steps) ==
    [ tag |-> tag, key |-> key, data |-> data, str |-> str, n |-> n, err |-> err,
      rest |-> rest, steps |-> steps ]

OutW(w) == Out(w.tag, NoKey, w.sink.data, <<>>, w.n, w.err, <<>>, <<>>)

OutK(k) == Out(k.tag, k.key, <<>>, <<>>, 0, k.err, k.rest, k.steps)

OutS(s) == Out(s.tag, NoKey, <<>>, s.str, 0, s.err, <<>>, <<>>)

OutR(r) == Out(r.tag, NoKey, IF r.tag = "Ok" THEN r.val ELSE <<>>, <<>>, 0, r.err, <<>>, <<>>)

WriteOps == { "write_xpriv", "write_xpub", "write_key_details" }

ReadOps == { "read_xpriv", "read_xpub", "read_xpriv_without_network", "read_xpub_without_network" }

ToBase58Ops == { "xpriv_to_base58", "xpub_to_base58" }

FromBase58Ops == { "xpriv_from_base58", "xpub_from_base58" }

\* the keys and writers of a write: the caller's, or the key just read
KeyArgs(kind, all, few, from) ==
    IF calls = <<>>
    THEN { [ key |-> k, sink |-> VecSink ] : k \in all }
         \cup { [ key |-> k, sink |-> s ] : k \in few, s \in OtherSinks }
    ELSE IF Last(calls).op \in from /\ Last(calls).out.tag = "Ok"
            /\ Last(calls).out.key.kind = kind
    THEN { [ key |-> Last(calls).out.key, sink |-> VecSink ] }
    ELSE {}

\* the bytes of a read: the caller's, or the bytes just written
DataArgs ==
    IF calls = <<>> THEN CallerBuffers
    ELSE IF Last(calls).op \in WriteOps THEN { Last(calls).out.data }
    ELSE {}

\* the string of a decode: the caller's, or the string just encoded
StrArgs(inputs, from) ==
    IF calls = <<>> THEN inputs
    ELSE IF Last(calls).op \in from /\ Last(calls).out.tag = "Ok"
    THEN { [ str |-> Last(calls).out.str, made |-> Chained ] }
    ELSE {}

MadeNow == IF calls = <<>> THEN Given ELSE Chained

Init == calls = <<>>

WriteKeyDetails ==
    /\ Len(calls) < MaxCalls
    /\ calls = <<>>
    /\ \E k \in FewXPrivs \cup FewXPubs, s \in Sinks :
         calls' = Append(calls, Call("write_key_details", "-", "-", s, k, <<>>, <<>>, Given,
                                     OutW(write_key_details(s, k))))

WriteXpub ==
    /\ Len(calls) < MaxCalls
    /\ \E N \in Nets, a \in KeyArgs("xpub", XPubs, FewXPubs, ReadOps) :
         calls' = Append(calls, Call("write_xpub", N, "-", a.sink, a.key, <<>>, <<>>, MadeNow,
                                     OutW(write_xpub(Params(N), a.sink, a.key))))

WriteXpriv ==
    /\ Len(calls) < MaxCalls
    /\ \E N \in Nets, a \in KeyArgs("xpriv", XPrivs, FewXPrivs, ReadOps) :
         calls' = Append(calls, Call("write_xpriv", N, "-", a.sink, a.key, <<>>, <<>>, MadeNow,
                                     OutW(write_xpriv(Params(N), a.sink, a.key))))

ReadXprivWithoutNetwork ==
    /\ Len(calls) < MaxCalls
    /\ \E b \in Backends, d \in DataArgs :
         calls' = Append(calls, Call("read_xpriv_without_network", "-", b, NoSink, NoKey, d, <<>>, MadeNow,
                                     OutK(read_xpriv_without_network(d, b))))

ReadXpubWithoutNetwork ==
    /\ Len(calls) < MaxCalls
    /\ \E b \in Backends, d \in DataArgs :
         calls' = Append(calls, Call("read_xpub_without_network", "-", b, NoSink, NoKey, d, <<>>, MadeNow,
                                     OutK(read_xpub_without_network(d, b))))

ReadXpriv ==
    /\ Len(calls) < MaxCalls
    /\ \E N \in Nets, b \in Backends, d \in DataArgs :
         calls' = Append(calls, Call("read_xpriv", N, b, NoSink, NoKey, d, <<>>, MadeNow,
                                     OutK(read_xpriv(Params(N), d, b))))

ReadXpub ==
    /\ Len(calls) < MaxCalls
    /\ \E N \in Nets, b \in Backends, d \in DataArgs :
         calls' = Append(calls, Call("read_xpub", N, b, NoSink, NoKey, d, <<>>, MadeNow,
                                     OutK(read_xpub(Params(N), d, b))))

EncodeB58Check ==
    /\ Len(calls) < MaxCalls
    /\ \E v \in (IF calls = <<>> THEN CheckPayloads
                 ELSE IF Last(calls).op = "decode_b58_check" /\ Last(calls).out.tag = "Ok"
                 THEN { Last(calls).out.data } ELSE {}) :
         calls' = Append(calls, Call("encode_b58_check", "-", "-", NoSink, NoKey, v, <<>>, MadeNow,
                                     OutS(SOk(encode_b58_check(v)))))

DecodeB58Check ==
    /\ Len(calls) < MaxCalls
    /\ \E s \in StrArgs(CheckStringInputs \cup KeyStringInputs, { "encode_b58_check" } \cup ToBase58Ops) :
         calls' = Append(calls, Call("decode_b58_check", "-", "-", NoSink, NoKey, <<>>, s.str, s.made,
                                     OutR(decode_b58_check(s.str))))

XprivToBase58 ==
    /\ Len(calls) < MaxCalls
    /\ \E N \in Nets, a \in KeyArgs("xpriv", FewXPrivs, {}, FromBase58Ops) :
         calls' = Append(calls, Call("xpriv_to_base58", N, "-", NoSink, a.key, <<>>, <<>>, MadeNow,
                                     OutS(xpriv_to_base58(Params(N), a.key))))

XpubToBase58 ==
    /\ Len(calls) < MaxCalls
    /\ \E N \in Nets, a \in KeyArgs("xpub", FewXPubs, {}, FromBase58Ops) :
         calls' = Append(calls, Call("xpub_to_base58", N, "-", NoSink, a.key, <<>>, <<>>, MadeNow,
                                     OutS(xpub_to_base58(Params(N), a.key))))

XprivFromBase58 ==
    /\ Len(calls) < MaxCalls
    /\ \E N \in Nets, b \in Backends, s \in StrArgs(KeyStringInputs, ToBase58Ops) :
         calls' = Append(calls, Call("xpriv_from_base58", N, b, NoSink, NoKey, <<>>, s.str, s.made,
                                     OutK(xpriv_from_base58(Params(N), s.str, b))))

XpubFromBase58 ==
    /\ Len(calls) < MaxCalls
    /\ \E N \in Nets, b \in Backends, s \in StrArgs(KeyStringInputs, ToBase58Ops) :
         calls' = Append(calls, Call("xpub_from_base58", N, b, NoSink, NoKey, <<>>, s.str, s.made,
                                     OutK(xpub_from_base58(Params(N), s.str, b))))

\* the calls on raw bytes
NextBytes ==
    \/ WriteKeyDetails
    \/ WriteXpub
    \/ WriteXpriv
    \/ ReadXprivWithoutNetwork
    \/ ReadXpubWithoutNetwork
    \/ ReadXpriv
    \/ ReadXpub

\* the calls through Base58Check
NextBase58 ==
    \/ EncodeB58Check
    \/ DecodeB58Check
    \/ XprivToBase58
    \/ XpubToBase58
    \/ XprivFromBase58
    \/ XpubFromBase58

Next == NextBytes \/ NextBase58

\* a session of calls on raw bytes
Spec == Init /\ [][NextBytes]_vars

\* a session of any calls
SpecBase58 == Init /\ [][Next]_vars

(***************************************************************************)
(* The properties.  They read the session: each call's arguments and its   *)
(* outcome, and for two calls in a row, the second made on the first's     *)
(* output.                                                                 *)
(***************************************************************************)
Calls == 1..Len(calls)

\* the calls followed by another
Pairs == 1..(Len(calls) - 1)

\* a and b are equal in every field of a key
SameKey(a, b) ==
    /\ a.kind = b.kind
    /\ a.depth = b.depth
    /\ a.parent = b.parent
    /\ a.index = b.index
    /\ a.chain_code = b.chain_code
    /\ a.hint = b.hint
    /\ a.key = b.key

\* the writer takes n bytes whole
AcceptsAll(sink, n) == sink.kind = "vec" \/ sink.cap >= n

\* the version bytes listed for a network, a key type and a hint
ListedVersion(N, kind, hint) ==
    CASE N = "Main" /\ kind = "xpriv" /\ hint = "Legacy"        -> << 4, 136, 173, 228 >>
      [] N = "Main" /\ kind = "xpub"  /\ hint = "Legacy"        -> << 4, 136, 178, 30 >>
      [] N = "Main" /\ kind = "xpriv" /\ hint = "Compatibility" -> << 4, 157, 120, 120 >>
      [] N = "Main" /\ kind = "xpub"  /\ hint = "Compatibility" -> << 4, 157, 124, 178 >>
      [] N = "Main" /\ kind = "xpriv" /\ hint = "SegWit"        -> << 4, 178, 67, 12 >>
      [] N = "Main" /\ kind = "xpub"  /\ hint = "SegWit"        -> << 4, 178, 71, 70 >>
      [] N = "Test" /\ kind = "xpriv" /\ hint = "Legacy"        -> << 4, 53, 131, 148 >>
      [] N = "Test" /\ kind = "xpub"  /\ hint = "Legacy"        -> << 4, 53, 135, 207 >>
      [] N = "Test" /\ kind = "xpriv" /\ hint = "Compatibility" -> << 4, 74, 78, 40 >>
      [] N = "Test" /\ kind = "xpub"  /\ hint = "Compatibility" -> << 4, 74, 82, 98 >>
      [] N = "Test" /\ kind = "xpriv" /\ hint = "SegWit"        -> << 4, 95, 24, 188 >>
      [] N = "Test" /\ kind = "xpub"  /\ hint = "SegWit"        -> << 4, 95, 28, 246 >>

ListedVersions(N, kind) == { ListedVersion(N, kind, h) : h \in Hints }

\* the key type a call reads or writes
KindOf(op) ==
    IF op \in { "write_xpriv", "read_xpriv", "read_xpriv_without_network",
                "xpriv_to_base58", "xpriv_from_base58" }
    THEN "xpriv" ELSE "xpub"

\* call j reads, under the network of call i, what call i wrote whole
ReadsBack(i, j) ==
    \/ /\ calls[i].op = "write_xpriv" /\ calls[j].op = "read_xpriv"
       /\ calls[i].sink.kind = "vec"
    \/ /\ calls[i].op = "write_xpub" /\ calls[j].op = "read_xpub"
       /\ calls[i].sink.kind = "vec"
    \/ calls[i].op = "xpriv_to_base58" /\ calls[j].op = "xpriv_from_base58"
    \/ calls[i].op = "xpub_to_base58" /\ calls[j].op = "xpub_from_base58"

\* C1: a key written under a network, to bytes or to a Base58Check string,
\* and read back under the same network is the key written, equal in depth,
\* parent, index, chain code, hint and key.
C1_RoundTrip ==
    \A i \in Pairs :
        (ReadsBack(i, i + 1) /\ calls[i + 1].net = calls[i].net)
        => /\ calls[i].out.tag = "Ok"
           /\ calls[i + 1].out.tag = "Ok"
           /\ SameKey(calls[i + 1].out.key, calls[i].key)

\* a deep hardened SegWit private key of Test came back from its bytes, and
\* so did a Compatibility public key of Main from its string
C1_Witness ==
    /\ Len(calls) = 2
    /\ calls[1].op = "write_xpriv" /\ calls[1].net = "Test" /\ calls[1].sink.kind = "vec"
    /\ calls[1].key.hint = "SegWit" /\ calls[1].key.depth = 255
    /\ calls[1].key.index = << 32768, 1 >> /\ calls[1].key.key = ScalarMax
    /\ calls[2].op = "read_xpriv" /\ calls[2].net = "Test"
    /\ calls[2].out.tag = "Ok" /\ SameKey(calls[2].out.key, calls[1].key)

C1_Witness_Base58 ==
    /\ Len(calls) = 2
    /\ calls[1].op = "xpub_to_base58" /\ calls[1].net = "Main"
    /\ calls[1].key.hint = "Compatibility"
    /\ calls[2].op = "xpub_from_base58" /\ calls[2].net = "Main"
    /\ calls[2].out.tag = "Ok" /\ SameKey(calls[2].out.key, calls[1].key)

\* call j writes, under the network of call i, the key call i read
WritesBack(i, j) ==
    /\ calls[i].out.tag = "Ok"
    /\ calls[j].net = calls[i].net
    /\ \/ /\ calls[i].op = "read_xpriv" /\ calls[j].op = "write_xpriv"
          /\ calls[j].sink.kind = "vec"
       \/ /\ calls[i].op = "read_xpub" /\ calls[j].op = "write_xpub"
          /\ calls[j].sink.kind = "vec"
       \/ calls[i].op = "xpriv_from_base58" /\ calls[j].op = "xpriv_to_base58"
       \/ calls[i].op = "xpub_from_base58" /\ calls[j].op = "xpub_to_base58"

\* what call j wrote is the input of call i
Reproduces(i, j) ==
    /\ calls[j].out.tag = "Ok"
    /\ IF calls[i].op \in FromBase58Ops
       THEN calls[j].out.str = calls[i].str
       ELSE calls[j].out.data = calls[i].data

\* C2: as stated, re-encoding the key decoded from any accepted string (or
\* buffer) under the same network returns that string (or buffer).
C2_ReencodeReproducesInput ==
    \A i \in Pairs : WritesBack(i, i + 1) => Reproduces(i, i + 1)

\* C2, amended: re-encoding reproduces an accepted input that the decoder
\* read to its end, the 78 bytes of a key with nothing after them.
C2_ReencodeReproducesWholeInput ==
    \A i \in Pairs :
        (WritesBack(i, i + 1) /\ calls[i].out.rest = <<>>) => Reproduces(i, i + 1)

\* the documentation's xprv string was decoded under Main and encoded again
C2_Witness ==
    /\ Len(calls) = 2
    /\ calls[1].op = "xpriv_from_base58" /\ calls[1].net = "Main"
    /\ calls[1].str = DocXprvString /\ calls[1].backend = "None"
    /\ calls[1].out.tag = "Ok" /\ calls[1].out.rest = <<>>
    /\ calls[1].out.key.depth = 0 /\ calls[1].out.key.index = << 0, 0 >>
    /\ calls[1].out.key.hint = "Legacy"
    /\ calls[2].op = "xpriv_to_base58" /\ calls[2].net = "Main"
    /\ calls[2].out.str = DocXprvString

\* C3: the first 4 bytes write_xpriv and write_xpub emit are the version
\* listed for the network, the key type and the key's hint, whatever the
\* other fields of the key.
C3_VersionDispatchOnWrite ==
    \A i \in Calls :
        (calls[i].op \in { "write_xpriv", "write_xpub" } /\ Len(calls[i].out.data) >= 4)
        => Take(calls[i].out.data, 4)
             = ListedVersion(calls[i].net, KindOf(calls[i].op), calls[i].key.hint)

\* a deep SegWit public key of Test was written under 0x045f1cf6
C3_Witness ==
    \E i \in Calls :
        /\ calls[i].op = "write_xpub" /\ calls[i].net = "Test"
        /\ calls[i].key.hint = "SegWit" /\ calls[i].key.depth = 255
        /\ calls[i].out.tag = "Ok"
        /\ Take(calls[i].out.data, 4) = << 4, 95, 28, 246 >>

\* C4: read_xpriv and read_xpub, given 4 first bytes that are none of the
\* network's three versions of the key type, fail with BadXPrivVersionBytes
\* of those 4 bytes and return no key.
C4_UnknownVersionFails ==
    \A i \in Calls :
        (/\ calls[i].op \in { "read_xpriv", "read_xpub" }
         /\ Len(calls[i].data) >= 4
         /\ Take(calls[i].data, 4) \notin ListedVersions(calls[i].net, KindOf(calls[i].op)))
        => /\ calls[i].out.tag = "Err"
           /\ calls[i].out.err = BadXPrivVersionBytes(Take(calls[i].data, 4))
           /\ calls[i].out.key = NoKey

\* read_xpriv under Main refused a well-formed key under the version 0
C4_Witness ==
    \E i \in Calls :
        /\ calls[i].op = "read_xpriv" /\ calls[i].net = "Main"
        /\ Len(calls[i].data) = 78
        /\ Take(calls[i].data, 4) = << 0, 0, 0, 0 >>
        /\ calls[i].data[46] = 0 /\ SubSeq(calls[i].data, 47, 78) = ScalarA
        /\ calls[i].out.err = BadXPrivVersionBytes(<< 0, 0, 0, 0 >>)

\* C5: what one network's encoder wrote, the other network's reader of the
\* same key type refuses with the version error; no version of Main is a
\* version of Test for the same key type.
C5_CrossNetworkRejection ==
    /\ \A kind \in { "xpriv", "xpub" } :
           ListedVersions("Main", kind) \cap ListedVersions("Test", kind) = {}
    /\ \A i \in Pairs :
           (ReadsBack(i, i + 1) /\ calls[i + 1].net # calls[i].net)
           => /\ calls[i].out.tag = "Ok"
              /\ calls[i + 1].out.tag = "Err"
              /\ calls[i + 1].out.err.kind = "BadXPrivVersionBytes"
              /\ calls[i + 1].out.err.data
                   = ListedVersion(calls[i].net, KindOf(calls[i].op), calls[i].key.hint)
              /\ calls[i + 1].out.key = NoKey

\* a string of Main was refused under Test, and bytes of Test under Main
C5_Witness ==
    /\ Len(calls) = 2
    /\ calls[1].op = "xpriv_to_base58" /\ calls[1].net = "Main"
    /\ calls[2].op = "xpriv_from_base58" /\ calls[2].net = "Test"
    /\ calls[2].out.err.kind = "BadXPrivVersionBytes"

C5_Witness_Bytes ==
    /\ Len(calls) = 2
    /\ calls[1].op = "write_xpub" /\ calls[1].net = "Test" /\ calls[1].sink.kind = "vec"
    /\ calls[2].op = "read_xpub" /\ calls[2].net = "Main"
    /\ calls[2].out.err.kind = "BadXPrivVersionBytes"

\* the private-key reads that reach the padding byte: any
\* read_xpriv_without_network, a read_xpriv under a version of its network
ReachesPadding(c) ==
    /\ Len(c.data) >= 46
    /\ \/ c.op = "read_xpriv_without_network"
       \/ c.op = "read_xpriv" /\ Take(c.data, 4) \in ListedVersions(c.net, "xpriv")

\* C6: a private-key read that reaches a byte p # 0 at offset 45 fails with
\* BadPadding(p) and returns no key, whatever follows; with 0 at offset 45
\* it does not fail with BadPadding.
C6_PaddingCheck ==
    \A i \in Calls :
        ReachesPadding(calls[i])
        => IF calls[i].data[46] # 0
           THEN /\ calls[i].out.tag = "Err"
                /\ calls[i].out.err = BadPadding(calls[i].data[46])
                /\ calls[i].out.key = NoKey
           ELSE calls[i].out.err.kind # "BadPadding"

\* read_xpriv refused the padding byte 1 before a valid scalar, and the
\* padding byte 255 before a scalar no backend accepts
C6_Witness ==
    \E i \in Calls :
        /\ calls[i].op = "read_xpriv" /\ Len(calls[i].data) = 78
        /\ calls[i].data[46] = 1 /\ SubSeq(calls[i].data, 47, 78) = ScalarA
        /\ calls[i].out.err = BadPadding(1)

C6_Witness_BadScalar ==
    \E i \in Calls :
        /\ calls[i].op = "read_xpriv_without_network" /\ Len(calls[i].data) = 78
        /\ calls[i].data[46] = 255 /\ SubSeq(calls[i].data, 47, 78) = Zeros(32)
        /\ calls[i].out.err = BadPadding(255)

\* bytes 4..78 of the buffer are a well-formed body of the key type read
WellFormedBody(c) ==
    /\ Len(c.data) = 78
    /\ IF c.op = "read_xpriv_without_network"
       THEN c.data[46] = 0 /\ from_privkey_array(SubSeq(c.data, 47, 78)).tag = "Ok"
       ELSE from_pubkey_array(SubSeq(c.data, 46, 78)).tag = "Ok"

\* C7: read_xpriv_without_network and read_xpub_without_network succeed on
\* a 78-byte buffer with a well-formed body whatever its first 4 bytes; the
\* key's hint is Legacy and its other fields are those of bytes 4..78.
C7_NetworkAgnosticRead ==
    \A i \in Calls :
        (/\ calls[i].op \in { "read_xpriv_without_network", "read_xpub_without_network" }
         /\ WellFormedBody(calls[i]))
        => /\ calls[i].out.tag = "Ok"
           /\ calls[i].out.key.hint = "Legacy"
           /\ calls[i].out.key.kind = KindOf(calls[i].op)
           /\ calls[i].out.key.depth = calls[i].data[5]
           /\ calls[i].out.key.parent = SubSeq(calls[i].data, 6, 9)
           /\ calls[i].out.key.index
                = << calls[i].data[10] * 256 + calls[i].data[11],
                     calls[i].data[12] * 256 + calls[i].data[13] >>
           /\ calls[i].out.key.chain_code = SubSeq(calls[i].data, 14, 45)
           /\ calls[i].out.key.key
                = SubSeq(calls[i].data, IF KindOf(calls[i].op) = "xpriv" THEN 47 ELSE 46, 78)

\* a private key was read under the bytes ff ff ff ff, and a public key
\* under the SegWit version of Test
C7_Witness ==
    \E i \in Calls :
        /\ calls[i].op = "read_xpriv_without_network"
        /\ Take(calls[i].data, 4) = << 255, 255, 255, 255 >>
        /\ calls[i].out.tag = "Ok" /\ calls[i].out.key.hint = "Legacy"
        /\ calls[i].out.key.depth = 255

C7_Witness_Xpub ==
    \E i \in Calls :
        /\ calls[i].op = "read_xpub_without_network"
        /\ Take(calls[i].data, 4) = << 4, 95, 28, 246 >>
        /\ calls[i].out.tag = "Ok" /\ calls[i].out.key.hint = "Legacy"

\* the string decodes from Base58 to fewer than 4 bytes
DecodesShort(str) ==
    LET data == bs58_decode(str)
    IN  data.tag = "Ok" /\ Len(data.val) < 4

\* C8: as stated, decode_b58_check returns an error value for every string
\* that decodes from Base58 to fewer than 4 bytes; it does not panic.
C8_ShortInputIsAnError ==
    \A i \in Calls :
        (calls[i].op = "decode_b58_check" /\ DecodesShort(calls[i].str))
        => calls[i].out.tag = "Err"

\* decode_b58_check was called on the empty string
C8_Witness ==
    \E i \in Calls :
        /\ calls[i].op = "decode_b58_check" /\ calls[i].str = <<>>
        /\ calls[i].out.tag = "Panic"

\* the bytes before the last 4, and the last 4
PayloadPart(data) == SubSeq(data, 1, Len(data) - 4)

ChecksumPart(data) == SubSeq(data, Len(data) - 3, Len(data))

\* C9: decode_b58_check returns Ok only when the last 4 decoded bytes are
\* the first 4 bytes of the double hash of the bytes before them, and then
\* returns those bytes; on p followed by its checksum with one byte altered,
\* in p or in the checksum, it fails with BadB58Checksum.
C9_ChecksumRejection ==
    \A i \in Calls :
        calls[i].op = "decode_b58_check"
        => /\ calls[i].out.tag = "Ok"
              => LET data == bs58_decode(calls[i].str).val
                 IN  /\ Len(data) >= 4
                     /\ calls[i].out.data = PayloadPart(data)
                     /\ ChecksumPart(data) = SubSeq(Hash256(PayloadPart(data)), 1, 4)
           /\ calls[i].made.how = "intact"
              => calls[i].out.tag = "Ok" /\ calls[i].out.data = calls[i].made.payload
           /\ calls[i].made.how = "altered"
              => calls[i].out.tag = "Err" /\ calls[i].out.err = BadB58Checksum

\* the last payload byte of the documentation's key was altered, and a
\* byte of the checksum of a 3-byte payload
C9_Witness ==
    \E i \in Calls :
        /\ calls[i].op = "decode_b58_check" /\ calls[i].made.how = "altered"
        /\ calls[i].made.payload = DocXprvBytes /\ calls[i].made.pos = 78
        /\ calls[i].out.err = BadB58Checksum

C9_Witness_Checksum ==
    \E i \in Calls :
        /\ calls[i].op = "decode_b58_check" /\ calls[i].made.how = "altered"
        /\ Len(calls[i].made.payload) = 3 /\ calls[i].made.pos = 7
        /\ calls[i].out.err = BadB58Checksum

C9_Witness_Intact ==
    \E i \in Calls :
        /\ calls[i].op = "decode_b58_check" /\ calls[i].made.how = "intact"
        /\ calls[i].out.tag = "Ok" /\ calls[i].out.data = DocXprvBytes

\* the bytes every key starts with after its version: depth at offset 4,
\* parent at 5-8, index at 9-12 big-endian, chain code at 13-44
DetailsAt(d, o, k) ==
    /\ d[o + 1] = k.depth
    /\ SubSeq(d, o + 2, o + 5) = k.parent
    /\ SubSeq(d, o + 6, o + 9)
         = << k.index[1] \div 256, k.index[1] % 256, k.index[2] \div 256, k.index[2] % 256 >>
    /\ SubSeq(d, o + 10, o + 41) = k.chain_code

\* C10: into a writer that takes them all, write_xpriv and write_xpub emit
\* 78 bytes and return 78: the version, the 41 bytes of the key's details,
\* then 0 and the 32-byte scalar, or the 33-byte point; write_key_details
\* emits the 41 bytes of the details and returns 41.
C10_FixedLayout ==
    \A i \in Calls :
        LET c == calls[i]
            d == calls[i].out.data
        IN  /\ (c.op \in { "write_xpriv", "write_xpub" } /\ AcceptsAll(c.sink, 78))
               => /\ c.out.tag = "Ok" /\ c.out.n = 78 /\ Len(d) = 78
                  /\ SubSeq(d, 1, 4) = ListedVersion(c.net, KindOf(c.op), c.key.hint)
                  /\ DetailsAt(d, 4, c.key)
                  /\ IF c.op = "write_xpriv"
                     THEN d[46] = 0 /\ SubSeq(d, 47, 78) = c.key.key
                     ELSE SubSeq(d, 46, 78) = c.key.key
            /\ (c.op = "write_key_details" /\ AcceptsAll(c.sink, 41))
               => /\ c.out.tag = "Ok" /\ c.out.n = 41 /\ Len(d) = 41
                  /\ DetailsAt(d, 0, c.key)

\* the hardened index 0x80000001 was written as 80 00 00 01 at offsets 9-12
\* of a private key's 78 bytes
C10_Witness ==
    \E i \in Calls :
        /\ calls[i].op = "write_xpriv" /\ calls[i].sink.kind = "vec"
        /\ calls[i].key.index = << 32768, 1 >>
        /\ calls[i].out.n = 78 /\ Len(calls[i].out.data) = 78
        /\ SubSeq(calls[i].out.data, 10, 13) = << 128, 0, 0, 1 >>
        /\ calls[i].out.data[46] = 0

C10_Witness_Xpub ==
    \E i \in Calls :
        /\ calls[i].op = "write_xpub" /\ calls[i].sink.kind = "slice" /\ calls[i].sink.cap = 78
        /\ calls[i].out.n = 78
        /\ calls[i].out.data[46] \in { 2, 3 }

C10_Witness_Details ==
    \E i \in Calls :
        /\ calls[i].op = "write_key_details" /\ calls[i].sink.kind = "vec"
        /\ calls[i].out.n = 41 /\ Len(calls[i].out.data) = 41

\* the bytes a step of a read takes from the reader
StepWidth(step) ==
    CASE step = "version" -> 4
      [] step = "depth" -> 1
      [] step = "parent" -> 4
      [] step = "index" -> 4
      [] step = "chain_code" -> 32
      [] step = "padding" -> 1
      [] step = "scalar" -> 32
      [] step = "point" -> 33
      [] OTHER -> 0

\* the bytes the first n steps take together
RECURSIVE Consumed(_, _)
Consumed(steps, n) ==
    IF n = 0 THEN 0 ELSE Consumed(steps, n - 1) + StepWidth(steps[n])

\* the buffer is the first bytes of a key read whole by the call: a version
\* the call takes, and a body of the key type with nothing wrong in it
PrefixOfValid(c) ==
    \E b \in FullBuffers :
        /\ Len(c.data) < 78 /\ c.data = Take(b, Len(c.data))
        /\ CASE c.op = "read_xpriv" -> read_xpriv(Params(c.net), b, c.backend).tag = "Ok"
             [] c.op = "read_xpub" -> read_xpub(Params(c.net), b, c.backend).tag = "Ok"
             [] c.op = "read_xpriv_without_network" -> read_xpriv_without_network(b, c.backend).tag = "Ok"
             [] OTHER -> read_xpub_without_network(b, c.backend).tag = "Ok"

\* C11: on a buffer of fewer than 78 bytes each of the four reads returns
\* an error and no key, and the steps that took bytes took no more than the
\* buffer holds; when the buffer is the first 0 to 77 bytes of a key the
\* call reads whole, the error is the I/O error of the first read the
\* buffer is too short for.
C11_TruncationIsAnError ==
    \A i \in Calls :
        (calls[i].op \in ReadOps /\ Len(calls[i].data) < 78)
        => LET o == calls[i].out
           IN  /\ o.tag = "Err"
               /\ o.key = NoKey
               /\ o.steps # <<>>
               /\ Consumed(o.steps, Len(o.steps) - 1) <= Len(calls[i].data)
               /\ o.err = IoError
                    <=> Consumed(o.steps, Len(o.steps)) > Len(calls[i].data)
               /\ PrefixOfValid(calls[i]) => o.err = IoError

\* read_xpriv under Main got the first 77 bytes of a key of Main and failed
\* at the read of the scalar
C11_Witness ==
    \E i \in Calls :
        /\ calls[i].op = "read_xpriv" /\ calls[i].net = "Main"
        /\ Len(calls[i].data) = 77
        /\ PrefixOfValid(calls[i])
        /\ calls[i].out.tag = "Err" /\ calls[i].out.err = IoError
        /\ Last(calls[i].out.steps) = "scalar"

\* read_xpub_without_network got the empty buffer
C11_Witness_Empty ==
    \E i \in Calls :
        /\ calls[i].op = "read_xpub_without_network" /\ calls[i].data = <<>>
        /\ calls[i].out.err = IoError /\ calls[i].out.steps = << "version" >>

\* the outcome of the read of call c, made with the backend b
ReadWith(c, b) ==
    CASE c.op = "read_xpriv" -> read_xpriv(Params(c.net), c.data, b)
      [] c.op = "read_xpub" -> read_xpub(Params(c.net), c.data, b)
      [] c.op = "read_xpriv_without_network" -> read_xpriv_without_network(c.data, b)
      [] c.op = "read_xpub_without_network" -> read_xpub_without_network(c.data, b)
      [] c.op = "xpriv_from_base58" -> xpriv_from_base58(Params(c.net), c.str, b)
      [] c.op = "xpub_from_base58" -> xpub_from_base58(Params(c.net), c.str, b)

OtherBackend(b) == IF b = "None" THEN "Some" ELSE "None"

\* the outcomes o and p of a read made with the backend b and of the same
\* read made with the backend q differ in nothing but the key's backend
SameButBackend(o, b, p, q) ==
    /\ p.tag = o.tag
    /\ p.err = o.err
    /\ p.rest = o.rest
    /\ o.tag = "Ok"
       => /\ SameKey(p.key, o.key)
          /\ o.key.backend = b
          /\ p.key.backend = q

\* C12: a read or a decode from Base58Check has the same outcome with no
\* backend as with one, the same error or a key equal in every field, and
\* the key it returns carries the backend it was given, None when given
\* None.
C12_BackendPassedThrough ==
    \A i \in Calls :
        calls[i].op \in ReadOps \cup FromBase58Ops
        => SameButBackend(calls[i].out, calls[i].backend,
                          OutK(ReadWith(calls[i], OtherBackend(calls[i].backend))),
                          OtherBackend(calls[i].backend))

\* the documentation's xprv string was decoded under Main with no backend
C12_Witness ==
    \E i \in Calls :
        /\ calls[i].op = "xpriv_from_base58" /\ calls[i].net = "Main"
        /\ calls[i].str = DocXprvString /\ calls[i].backend = "None"
        /\ calls[i].out.tag = "Ok"
        /\ calls[i].out.key.backend = "None"
        /\ calls[i].out.key.key = ScalarA

\* read_xpub returned a key with the backend it was given
C12_Witness_Bytes ==
    \E i \in Calls :
        /\ calls[i].op = "read_xpub" /\ calls[i].backend = "Some"
        /\ calls[i].out.tag = "Ok" /\ calls[i].out.key.backend = "Some"

\* the hints in the order their versions are compared
HintOrder == << "Legacy", "Compatibility", "SegWit" >>

\* the version constant of a parameter set for a key type and a hint
VersionOf(P, kind, hint) ==
    CASE kind = "xpriv" /\ hint = "Legacy" -> P.PRIV_VERSION
      [] kind = "xpriv" /\ hint = "Compatibility" -> P.BIP49_PRIV_VERSION
      [] kind = "xpriv" /\ hint = "SegWit" -> P.BIP84_PRIV_VERSION
      [] kind = "xpub" /\ hint = "Legacy" -> P.PUB_VERSION
      [] kind = "xpub" /\ hint = "Compatibility" -> P.BIP49_PUB_VERSION
      [] kind = "xpub" /\ hint = "SegWit" -> P.BIP84_PUB_VERSION

\* hint is the first in HintOrder whose version of the key type is v
FirstMatch(P, kind, v, hint) ==
    \E k \in 1..3 :
        /\ hint = HintOrder[k]
        /\ v = to_be_bytes(VersionOf(P, kind, HintOrder[k]))
        /\ \A j \in 1..(k - 1) : v # to_be_bytes(VersionOf(P, kind, HintOrder[j]))

\* parameter sets in which versions of different hints coincide
OverlappingParams ==
    { [ Main EXCEPT !.BIP49_PRIV_VERSION = Main.PRIV_VERSION, !.BIP49_PUB_VERSION = Main.PUB_VERSION ],
      [ Main EXCEPT !.BIP84_PRIV_VERSION = Main.BIP49_PRIV_VERSION,
                    !.BIP84_PUB_VERSION = Main.BIP49_PUB_VERSION ],
      [ Test EXCEPT !.BIP49_PRIV_VERSION = Test.PRIV_VERSION, !.BIP84_PRIV_VERSION = Test.PRIV_VERSION,
                    !.BIP49_PUB_VERSION = Test.PUB_VERSION, !.BIP84_PUB_VERSION = Test.PUB_VERSION ] }

\* a key of each type under the version v
KeyUnder(kind, v) ==
    to_be_bytes(v) \o << 0 >> \o << 0, 0, 0, 0 >> \o << 0, 0, 0, 0 >> \o ChainCodeA
        \o (IF kind = "xpriv" THEN << 0 >> \o ScalarA ELSE << 2 >> \o PointXA)

\* C13: a successful read_xpriv or read_xpub returns the hint of the first
\* of the versions Legacy, Compatibility, SegWit of its key type that the
\* 4 version bytes equal; under Main and Test that hint is the one whose
\* listed version the bytes are, and the hint of the key the bytes were
\* written from.
C13_VersionDispatchOnRead ==
    /\ \A i \in Calls :
           (calls[i].op \in { "read_xpriv", "read_xpub" } /\ calls[i].out.tag = "Ok")
           => /\ FirstMatch(Params(calls[i].net), KindOf(calls[i].op),
                            Take(calls[i].data, 4), calls[i].out.key.hint)
              /\ Take(calls[i].data, 4)
                   = ListedVersion(calls[i].net, KindOf(calls[i].op), calls[i].out.key.hint)
    /\ \A i \in Pairs :
           (/\ ReadsBack(i, i + 1) /\ calls[i].op \in WriteOps
            /\ calls[i + 1].net = calls[i].net)
           => calls[i + 1].out.key.hint = calls[i].key.hint
    /\ \A N \in Nets, kind \in { "xpriv", "xpub" } :
           \A g \in Hints, h \in Hints :
               ListedVersion(N, kind, g) = ListedVersion(N, kind, h) => g = h
    /\ \A P \in OverlappingParams, h \in Hints :
           /\ LET k == read_xpriv(P, KeyUnder("xpriv", VersionOf(P, "xpriv", h)), "None")
              IN  k.tag = "Ok" /\ FirstMatch(P, "xpriv", to_be_bytes(VersionOf(P, "xpriv", h)), k.key.hint)
           /\ LET k == read_xpub(P, KeyUnder("xpub", VersionOf(P, "xpub", h)), "None")
              IN  k.tag = "Ok" /\ FirstMatch(P, "xpub", to_be_bytes(VersionOf(P, "xpub", h)), k.key.hint)

\* read_xpriv under Test read a key under 0x045f18bc with the hint SegWit
C13_Witness ==
    \E i \in Calls :
        /\ calls[i].op = "read_xpriv" /\ calls[i].net = "Test"
        /\ Take(calls[i].data, 4) = << 4, 95, 24, 188 >>
        /\ calls[i].out.tag = "Ok" /\ calls[i].out.key.hint = "SegWit"

\* read_xpub under Main read a key under 0x049d7cb2 with the hint
\* Compatibility
C13_Witness_Xpub ==
    \E i \in Calls :
        /\ calls[i].op = "read_xpub" /\ calls[i].net = "Main"
        /\ Take(calls[i].data, 4) = << 4, 157, 124, 178 >>
        /\ calls[i].out.tag = "Ok" /\ calls[i].out.key.hint = "Compatibility"

\* C14: as stated, write_xpriv and write_xpub into any writer either put
\* the 78 bytes of the key in it and return Ok(78), or return an error; and
\* xpriv_to_base58 and xpub_to_base58 return the string of the 78 bytes and
\* their checksum, or an error.
C14_NoPartialSuccessOnWrite ==
    \A i \in Calls :
        /\ calls[i].op \in { "write_xpriv", "write_xpub" }
           => \/ calls[i].out.tag = "Err"
              \/ /\ calls[i].out.tag = "Ok"
                 /\ calls[i].out.n = 78
                 /\ Len(calls[i].out.data) = 78
        /\ calls[i].op \in ToBase58Ops
           => \/ calls[i].out.tag = "Err"
              \/ /\ calls[i].out.tag = "Ok"
                 /\ Len(bs58_decode(calls[i].out.str).val) = 82

\* write_xpriv into a slice of 45 bytes returned Ok(45), the slice holding
\* the version and the key's details, no padding byte and no scalar
C14_Witness ==
    \E i \in Calls :
        /\ calls[i].op = "write_xpriv"
        /\ calls[i].sink.kind = "slice" /\ calls[i].sink.cap = 45
        /\ calls[i].out.tag = "Ok" /\ calls[i].out.n = 45
        /\ Len(calls[i].out.data) = 45

\* the checks of read_xpriv in the order of the wire: the bytes a check
\* needs, counted from the start of the buffer, and the step it is made in
ReadableUpTo == << 4, 5, 9, 13, 45, 46, 78 >>

CheckSteps == << "version", "depth", "parent", "index", "chain_code", "padding", "scalar" >>

\* the error of the first check of read_xpriv that the buffer d fails under
\* the network N, the step it fails in, and the bytes taken from the reader
\* by then: all of them when a read fails, and else the bytes of the reads
\* made; NoErr when it fails none
FirstFailure(N, d) ==
    IF Len(d) < 4 THEN [ err |-> IoError, step |-> "version", taken |-> Len(d) ]
    ELSE IF Take(d, 4) \notin ListedVersions(N, "xpriv")
    THEN [ err |-> BadXPrivVersionBytes(Take(d, 4)), step |-> "version", taken |-> 4 ]
    ELSE IF \E k \in 2..5 : Len(d) < ReadableUpTo[k]
    THEN [ err |-> IoError,
           step |-> CheckSteps[CHOOSE k \in 2..5 :
                                  Len(d) < ReadableUpTo[k] /\ Len(d) >= ReadableUpTo[k - 1]],
           taken |-> Len(d) ]
    ELSE IF Len(d) < 46 THEN [ err |-> IoError, step |-> "padding", taken |-> Len(d) ]
    ELSE IF d[46] # 0 THEN [ err |-> BadPadding(d[46]), step |-> "padding", taken |-> 46 ]
    ELSE IF Len(d) < 78 THEN [ err |-> IoError, step |-> "scalar", taken |-> Len(d) ]
    ELSE IF SubSeq(d, 47, 78) = Zeros(32) \/ ~BytesLess(SubSeq(d, 47, 78), CurveOrder)
    THEN [ err |-> BackendError, step |-> "from_privkey_array", taken |-> 78 ]
    ELSE [ err |-> NoErr, step |-> "from_privkey_array", taken |-> 78 ]

\* C15: read_xpriv reports the error of the first check that fails, the
\* checks taken in the order: version readable, version of the network,
\* depth, parent, index and chain code readable, padding byte readable and
\* zero, scalar readable, scalar accepted by the backend; the step it ends
\* in is that check's, and the reader holds the bytes after those read up
\* to that check (none after a read that failed), so the key parser runs
\* only when every check before it passed.
C15_ErrorPrecedence ==
    \A i \in Calls :
        calls[i].op = "read_xpriv"
        => LET f == FirstFailure(calls[i].net, calls[i].data)
               o == calls[i].out
           IN  /\ o.err = f.err
               /\ o.tag = "Ok" <=> f.err = NoErr
               /\ Last(o.steps) = f.step
               /\ o.rest = Drop(calls[i].data, f.taken)
               /\ "from_privkey_array" \in { o.steps[k] : k \in 1..Len(o.steps) }
                    => /\ Len(calls[i].data) >= 78
                       /\ Take(calls[i].data, 4) \in ListedVersions(calls[i].net, "xpriv")
                       /\ calls[i].data[46] = 0

\* read_xpriv reported BadPadding for a key of its network with the
\* padding byte 255 and the curve order for a scalar
C15_Witness ==
    \E i \in Calls :
        /\ calls[i].op = "read_xpriv" /\ Len(calls[i].data) = 78
        /\ Take(calls[i].data, 4) \in ListedVersions(calls[i].net, "xpriv")
        /\ calls[i].data[46] = 255 /\ SubSeq(calls[i].data, 47, 78) = CurveOrder
        /\ calls[i].out.err = BadPadding(255)
        /\ Last(calls[i].out.steps) = "padding"
        /\ calls[i].out.rest = CurveOrder

\* a foreign version with the padding byte 1: the version error
C15_Witness_Version ==
    \E i \in Calls :
        /\ calls[i].op = "read_xpriv" /\ Len(calls[i].data) = 78
        /\ Take(calls[i].data, 4) \notin ListedVersions(calls[i].net, "xpriv")
        /\ calls[i].data[46] = 1
        /\ calls[i].out.err = BadXPrivVersionBytes(Take(calls[i].data, 4))
        /\ calls[i].out.steps = << "version" >>

\* the padding byte 1 before a scalar cut short: BadPadding
C15_Witness_Truncated ==
    \E i \in Calls :
        /\ calls[i].op = "read_xpriv" /\ Len(calls[i].data) \in 46..77
        /\ calls[i].out.err = BadPadding(1)

\* the padding byte 0 before a scalar no backend accepts: the backend's
\* error
C15_Witness_Backend ==
    \E i \in Calls :
        /\ calls[i].op = "read_xpriv" /\ Len(calls[i].data) = 78
        /\ calls[i].out.err = BackendError
        /\ Last(calls[i].out.steps) = "from_privkey_array"

\* the read of call c made on the bytes d
ReadOf(c, d) ==
    CASE KindOf(c.op) = "xpriv" /\ c.net = "-" -> read_xpriv_without_network(d, c.backend)
      [] KindOf(c.op) = "xpub" /\ c.net = "-" -> read_xpub_without_network(d, c.backend)
      [] KindOf(c.op) = "xpriv" /\ c.net # "-" -> read_xpriv(Params(c.net), d, c.backend)
      [] KindOf(c.op) = "xpub" /\ c.net # "-" -> read_xpub(Params(c.net), d, c.backend)

\* the outcome o of a read of the bytes d is that of the read p of their
\* first 78 bytes, with the bytes after the 78th left unread when it is Ok
AsOfPrefix(o, d, p) ==
    /\ o.tag = p.tag
    /\ o.err = p.err
    /\ o.key = p.key
    /\ o.tag = "Ok" => (Len(d) >= 78 /\ o.rest = Drop(d, 78) /\ p.rest = <<>>)

\* C16: a read of bytes, and a decode of a string whose checked payload is
\* known, has the outcome of the read of the first 78 bytes; when it
\* succeeds it has taken exactly those 78 bytes and left the bytes after
\* them unread, so a payload of more than 78 bytes with a correct checksum
\* is accepted as the key of its first 78 bytes.
C16_ExactConsumption ==
    \A i \in Calls :
        /\ calls[i].op \in ReadOps
           => AsOfPrefix(calls[i].out, calls[i].data,
                         ReadOf(calls[i], Take(calls[i].data, 78)))
        /\ (calls[i].op \in FromBase58Ops /\ calls[i].made.how \in { "literal", "trailing" })
           => AsOfPrefix(calls[i].out, calls[i].made.payload,
                         ReadOf(calls[i], Take(calls[i].made.payload, 78)))

\* xpub_from_base58 under Main accepted the documentation's public key
\* followed by 2 bytes and a checksum of the 80
C16_Witness ==
    \E i \in Calls :
        /\ calls[i].op = "xpub_from_base58" /\ calls[i].net = "Main"
        /\ calls[i].made.how = "trailing" /\ Len(calls[i].made.payload) = 80
        /\ Take(calls[i].made.payload, 78) = DocXpubBytes
        /\ calls[i].out.tag = "Ok"
        /\ calls[i].out.rest = << 85, 170 >>
        /\ calls[i].out.key = read_xpub(Main, DocXpubBytes, calls[i].backend).key

\* read_xpriv_without_network left the byte after the 78th unread
C16_Witness_Bytes ==
    \E i \in Calls :
        /\ calls[i].op = "read_xpriv_without_network" /\ Len(calls[i].data) = 79
        /\ calls[i].out.tag = "Ok" /\ calls[i].out.rest = << 85 >>

\* call j reads as a key of one type what call i wrote as a key of the
\* other, the version bytes at least
ReadsOtherType(i, j) ==
    /\ Len(calls[i].out.data) >= 4
    /\ calls[i].out.tag = "Ok"
    /\ \/ calls[i].op = "write_xpub" /\ calls[j].op = "read_xpriv"
       \/ calls[i].op = "write_xpriv" /\ calls[j].op = "read_xpub"

\* C17: no version of a private key, of Main or of Test, is a version of a
\* public key of Main or of Test; read_xpriv refuses what write_xpub wrote
\* and read_xpub what write_xpriv wrote, under the same network or the
\* other, with the version error of the 4 bytes written, and returns no key.
C17_KeyTypeSeparation ==
    /\ \A N \in Nets, M \in Nets :
           /\ ListedVersions(N, "xpriv") \cap ListedVersions(M, "xpub") = {}
           /\ { to_be_bytes(VersionOf(Params(N), "xpriv", h)) : h \in Hints }
                \cap { to_be_bytes(VersionOf(Params(M), "xpub", h)) : h \in Hints } = {}
    /\ \A i \in Pairs :
           ReadsOtherType(i, i + 1)
           => /\ calls[i + 1].out.tag = "Err"
              /\ calls[i + 1].out.err = BadXPrivVersionBytes(Take(calls[i].out.data, 4))
              /\ calls[i + 1].out.err.data
                   = ListedVersion(calls[i].net, KindOf(calls[i].op), calls[i].key.hint)
              /\ calls[i + 1].out.key = NoKey
              /\ calls[i + 1].out.steps = << "version" >>

\* read_xpriv under Main refused the 78 bytes of a SegWit public key of
\* Main
C17_Witness ==
    /\ Len(calls) = 2
    /\ calls[1].op = "write_xpub" /\ calls[1].net = "Main" /\ calls[1].sink.kind = "vec"
    /\ calls[1].key.hint = "SegWit" /\ calls[1].out.n = 78
    /\ calls[2].op = "read_xpriv" /\ calls[2].net = "Main"
    /\ calls[2].out.err = BadXPrivVersionBytes(<< 4, 178, 71, 70 >>)

\* read_xpub under Test refused the 78 bytes of a private key of Main
C17_Witness_Reverse ==
    /\ Len(calls) = 2
    /\ calls[1].op = "write_xpriv" /\ calls[1].net = "Main" /\ calls[1].sink.kind = "vec"
    /\ calls[1].key.hint = "Legacy"
    /\ calls[2].op = "read_xpub" /\ calls[2].net = "Test"
    /\ calls[2].out.err = BadXPrivVersionBytes(<< 4, 136, 173, 228 >>)
====
